---------------------------- MODULE Spec2Model ----------------------------
(***************************************************************************)
(* docroutes: extraction of route descriptions from annotated TypeScript   *)
(* declarations (src/src/index.ts).                                        *)
(*                                                                         *)
(* Representation.                                                         *)
(*  - A string|null name of a Type is the sequence of its dot-separated    *)
(*    segments; null is the empty sequence.                                *)
(*  - Documentation is a record [state, text]: state "absent" (the object  *)
(*    has no documentation field), "null", or "text" with text the         *)
(*    sequence of the comment's chunks.                                    *)
(*  - A numeric literal's text is [whole, frac], the digits before and     *)
(*    after the decimal point (frac = 0: none); numbers of the Type model  *)
(*    have the same shape.                                                 *)
(*  - Syntax nodes are records with a kind field and the fields the        *)
(*    TypeScript AST gives that kind.                                      *)
(***************************************************************************)
EXTENDS Integers, Sequences, FiniteSets, TLC

VARIABLES
    pc,                 \* position of the run: "start", "scan", "outdir", "exited", "aborted"
    cmdOpts,            \* IOptions: files, outputFile, outputDirectory, checkUnchanged
    imports,            \* RoutesFrontend.imports
    currentModule,      \* RoutesFrontend.currentModule
    currentSourceFile,  \* RoutesFrontend.currentSourceFile
    fileIdx,            \* index into cmdOpts.files of the file being scanned
    nodeIdx,            \* index of the next child of that file
    routers,            \* compile(): routers
    changed,            \* compile(): changed
    outIdx,             \* index of the next router written to the output directory
    fs,                 \* the files of the output targets: name -> content
    fs0,                \* fs when the run started
    priorRuns,          \* the command options of the runs completed before this one
    processed,          \* the <<file, child index>> of every marked declaration handed to processRouterNode
    thrown,             \* the error that left compile(), if any
    stderr,             \* messages of console.error
    rendered,           \* the routers handed to printMarkdownFull / printMarkdown
    exitCode,           \* process.exit status, -1 while running
    input,              \* argument of the function applied (function specifications)
    output              \* its result

vars == <<pc, cmdOpts, imports, currentModule, currentSourceFile, fileIdx, nodeIdx,
          routers, changed, outIdx, fs, fs0, priorRuns, processed, thrown, stderr, rendered,
          exitCode, input, output>>

runVars == <<pc, cmdOpts, imports, currentModule, currentSourceFile, fileIdx, nodeIdx,
             routers, changed, outIdx, fs, fs0, priorRuns, processed, thrown, stderr, rendered,
             exitCode>>

-----------------------------------------------------------------------------
(* Bounds *)

MaxFiles == 2          \* input files of one run
MaxEnumMembers == 3    \* members of a generated enum
MaxOperands == 2       \* operands of a generated union / intersection
MaxMembers == 2        \* members of a generated interface / type literal
MaxChunks == 3         \* pieces of a generated documentation comment
MaxDepth == 2          \* type expressions nested around a generated failing type
MaxStack == 16         \* nested activations of parseType before the call stack overflows
MaxReruns == 1         \* runs of the command that follow the first

-----------------------------------------------------------------------------
(* null, names, documentation *)

NULL == "<null>"

\* the element of a singleton: Only({e(x) : x \in {v}}) is e(v), with v written
\* and evaluated once
Only(S) == CHOOSE v \in S : TRUE
NullName == <<>>

NoDocField == [state |-> "absent", text |-> <<>>]
NullDoc == [state |-> "null", text |-> <<>>]
Doc(chunks) == [state |-> "text", text |-> chunks]

\* mergeDocumentation(acc, doc)
mergeDocumentation(acc, doc) ==
    IF acc.state = "text" /\ doc.state = "text" THEN Doc(acc.text \o doc.text)
    ELSE IF acc.state = "text" THEN acc
    ELSE doc

RECURSIVE ReduceDocs(_, _, _)
ReduceDocs(docs, i, acc) ==
    IF i > Len(docs) THEN acc
    ELSE ReduceDocs(docs, i + 1, mergeDocumentation(acc, docs[i]))

\* getDocumentation(node): node.jsDoc is the sequence of the comments of the
\* JSDoc nodes attached to the node (NullDoc for a JSDoc node without comment),
\* empty when the node has no jsDoc property.
getDocumentation(node) ==
    IF Len(node.jsDoc) = 0 THEN NullDoc
    ELSE ReduceDocs(node.jsDoc, 2, node.jsDoc[1])

-----------------------------------------------------------------------------
(* The Type model (types.ts) *)

Num(w, f) == [whole |-> w, frac |-> f]

BaseType(kind, name, doc) ==
    [kind |-> kind, name |-> name, documentation |-> doc, all |-> FALSE,
     numbers |-> <<>>, strings |-> <<>>, booleans |-> <<>>,
     sub |-> <<>>, objectMembers |-> <<>>]

BooleanAll(name, doc) == [BaseType("Boolean", name, doc) EXCEPT !.all = TRUE]
NumberAll(name, doc) == [BaseType("Number", name, doc) EXCEPT !.all = TRUE]
StringAll(name, doc) == [BaseType("String", name, doc) EXCEPT !.all = TRUE]
Booleans(bs, name, doc) == [BaseType("Boolean", name, doc) EXCEPT !.booleans = bs]
Numbers(ns, name, doc) == [BaseType("Number", name, doc) EXCEPT !.numbers = ns]
Strings(ss, name, doc) == [BaseType("String", name, doc) EXCEPT !.strings = ss]
ObjectType(ms, name, doc) == [BaseType("Object", name, doc) EXCEPT !.objectMembers = ms]
NullType(doc) == BaseType("Null", NullName, doc)
UndefinedType(doc) == BaseType("Undefined", NullName, doc)
ArrayType(t, name, doc) == [BaseType("Array", name, doc) EXCEPT !.sub = <<t>>]
TupleType(ts, name, doc) == [BaseType("Tuple", name, doc) EXCEPT !.sub = ts]
UnionType(ts, name, doc) == [BaseType("Union", name, doc) EXCEPT !.sub = ts]
IntersectionType(ts, name, doc) == [BaseType("Intersection", name, doc) EXCEPT !.sub = ts]
NoType == BaseType("none", NullName, NoDocField)

\* An object of the Type model keeps its members in insertion order:
\* a sequence of [name, type] with distinct names.
MemberNames(ms) == [i \in 1..Len(ms) |-> ms[i].name]
HasMember(ms, n) == \E i \in 1..Len(ms) : ms[i].name = n
MemberType(ms, n) == ms[CHOOSE i \in 1..Len(ms) : ms[i].name = n].type

\* objectMembers[n] = t
SetMember(ms, n, t) ==
    IF HasMember(ms, n)
    THEN [i \in 1..Len(ms) |-> IF ms[i].name = n THEN [name |-> n, type |-> t] ELSE ms[i]]
    ELSE Append(ms, [name |-> n, type |-> t])

\* { ...a, ...b }
RECURSIVE Spread(_, _, _)
Spread(a, b, i) ==
    IF i > Len(b) THEN a
    ELSE Spread(SetMember(a, b[i].name, b[i].type), b, i + 1)

-----------------------------------------------------------------------------
(* Syntax nodes (the TypeScript AST as far as index.ts reads it) *)

NoJsDoc == <<>>
Keyword(kind) == [kind |-> kind, jsDoc |-> NoJsDoc]
NumberKw == Keyword("NumberKeyword")
StringKw == Keyword("StringKeyword")
BooleanKw == Keyword("BooleanKeyword")
ObjectKw == Keyword("ObjectKeyword")
NullKw == Keyword("NullKeyword")
UndefinedKw == Keyword("UndefinedKeyword")
FunctionTypeNode == Keyword("FunctionType")
MissingNode == Keyword("undefined")      \* the value undefined where a node is expected

Identifier(text) == [kind |-> "Identifier", text |-> text]
QualifiedName(left, right) == [kind |-> "QualifiedName", left |-> left, right |-> Identifier(right)]
PropertyAccess(left, right) == [kind |-> "PropertyAccessExpression", left |-> left, right |-> right]

ArrayTypeNode(elementType) == [kind |-> "ArrayType", elementType |-> elementType, jsDoc |-> NoJsDoc]
\* a literal expression: kind TrueKeyword, FalseKeyword, NumericLiteral,
\* StringLiteral or PrefixUnaryExpression (such as -1), or "none" for no
\* expression; text is its text, for a NumericLiteral [whole, frac] in num
NoDigits == [whole |-> <<>>, frac |-> <<>>]
Literal(kind, text) == [kind |-> kind, text |-> text, num |-> NoDigits]
NumericLiteral(whole, frac) ==
    [kind |-> "NumericLiteral", text |-> "", num |-> [whole |-> whole, frac |-> frac]]
LiteralTypeNode(literal) == [kind |-> "LiteralType", literal |-> literal, jsDoc |-> NoJsDoc]
StringLiteralType(text) == LiteralTypeNode(Literal("StringLiteral", text))
TupleTypeNode(elementTypes) == [kind |-> "TupleType", elementTypes |-> elementTypes, jsDoc |-> NoJsDoc]
TypeReferenceNode(typeName) == [kind |-> "TypeReference", typeName |-> typeName, jsDoc |-> NoJsDoc]
Ref(text) == TypeReferenceNode(Identifier(text))
ExpressionWithTypeArguments(expression) ==
    [kind |-> "ExpressionWithTypeArguments", expression |-> expression, jsDoc |-> NoJsDoc]
Extends(text) == ExpressionWithTypeArguments(Identifier(text))
TypeOperatorNode(operator, type) ==
    [kind |-> "TypeOperator", operator |-> operator, type |-> type, jsDoc |-> NoJsDoc]
KeyOf(type) == TypeOperatorNode("KeyOfKeyword", type)
TypeLiteralNode(members) == [kind |-> "TypeLiteral", members |-> members, jsDoc |-> NoJsDoc]
UnionTypeNode(types) == [kind |-> "UnionType", types |-> types, jsDoc |-> NoJsDoc]
IntersectionTypeNode(types) == [kind |-> "IntersectionType", types |-> types, jsDoc |-> NoJsDoc]
ParenthesizedTypeNode(type) == [kind |-> "ParenthesizedType", type |-> type, jsDoc |-> NoJsDoc]

\* members of type literals and interfaces
PropertySignature(nameKind, text, questionToken, type, jsDoc) ==
    [kind |-> "PropertySignature", hasName |-> TRUE,
     name |-> [kind |-> nameKind, text |-> text],
     questionToken |-> questionToken, type |-> type, jsDoc |-> jsDoc]
Prop(text, type) == PropertySignature("Identifier", text, FALSE, type, NoJsDoc)
OptProp(text, type) == PropertySignature("Identifier", text, TRUE, type, NoJsDoc)
MethodSignature(text) ==
    [kind |-> "MethodSignature", hasName |-> TRUE,
     name |-> [kind |-> "Identifier", text |-> text], jsDoc |-> NoJsDoc]
IndexSignature == [kind |-> "IndexSignature", hasName |-> FALSE, jsDoc |-> NoJsDoc]

\* declarations; typeParameters is the number of type parameters
InterfaceDeclaration(name, typeParameters, heritageClauses, members, jsDoc) ==
    [kind |-> "InterfaceDeclaration", name |-> name, typeParameters |-> typeParameters,
     heritageClauses |-> heritageClauses, members |-> members, jsDoc |-> jsDoc]
TypeAliasDeclaration(name, typeParameters, type, jsDoc) ==
    [kind |-> "TypeAliasDeclaration", name |-> name, typeParameters |-> typeParameters,
     type |-> type, jsDoc |-> jsDoc]
\* enum member: initializer is a literal expression, kind "none" without initializer
EnumMember(name, initializer) ==
    [kind |-> "EnumMember", name |-> name, initializer |-> initializer, jsDoc |-> NoJsDoc]
EnumDeclaration(name, members, jsDoc) ==
    [kind |-> "EnumDeclaration", name |-> name, members |-> members, jsDoc |-> jsDoc]
ClassDeclaration(name) == [kind |-> "ClassDeclaration", name |-> name, jsDoc |-> NoJsDoc]
ModuleDeclaration(name) == [kind |-> "ModuleDeclaration", name |-> name, jsDoc |-> NoJsDoc]

\* import declarations; bindings: [kind |-> "none"], NamedImports(elements) with
\* elements [name, propertyName] (propertyName NULL when absent), NamespaceImport(name)
NamedImports(elements) == [kind |-> "NamedImports", elements |-> elements]
NamespaceImport(name) == [kind |-> "NamespaceImport", name |-> name]
NoBindings == [kind |-> "none"]
ImportSpecifier(name, propertyName) == [name |-> name, propertyName |-> propertyName]
ImportDeclaration(moduleSpecifier, hasClause, namedBindings) ==
    [kind |-> "ImportDeclaration", moduleSpecifier |-> moduleSpecifier,
     hasClause |-> hasClause, namedBindings |-> namedBindings, jsDoc |-> NoJsDoc]

-----------------------------------------------------------------------------
(* The source files the runs are given.

   /types.ts
       export interface Base { id: number; tag: string; }
       export interface Extra { tag?: boolean; note: string; }
       export type Local = string;
       export type Wrapped = Local[];
       export type Callback = () => void;
       export type Bad = { cb: Callback };
       export enum Status { OPEN = "open", DONE = "done" }
       export class Model {}
       export interface Handlers { run: () => void; label: string; }
       export type Keys = keyof Handlers;
       export type Self = Base;
   /a.ts
       import { Base, Wrapped, Bad as Broken, Extra } from "./types";
       import * as ns from "./types";
       import { Gone } from "./missing";            (no such module)
       import "./types";
       type Local = number;
       /** Routes of A. #ExportRoute("/a") */
       export interface ARoutes {
           "/x": { GET: { name: "Get X"; body: Wrapped; response: { 200: Base; 204: undefined; }; }; };
       }
       /** #ExportRoute("/bad") */
       export interface BadRoutes { "/y": { POST: { body: Broken; }; }; }
       /** #ExportRoute("/late") */
       export type LateRoutes = { "/l": { GET: { param: { id: Local; }; }; }; };
   /b.ts
       import { Status } from "./types";
       import { Lost } from "./missing";            (no such module)
       /** #ExportRoute("/b") Routes of B. */
       export type BRoutes = { "/z": { PUT: { query: { s?: Status; }; }; }; };
       /** Not exported. */
       interface Unmarked { "/u": { GET: {}; }; }
   /c.ts
       import { Base } from "./types";
       /** #ExportRoute("/c") */
       export interface CRoutes { "/c": { GET: { body: Child; }; }; }
       interface Child extends Base { own: string; tag: "fixed"; }
       interface Orphan extends Nowhere { own: string; }                           *)

Text(s) == [text |-> s, marker |-> "none", arg |-> ""]
\* the substring #ExportRoute("...") of a comment: arg is what JSON.parse gives
\* for its quoted argument, marker "invalid" when JSON.parse throws
Marker(s, arg) == [text |-> s, marker |-> "string", arg |-> arg]
BadMarker(s) == [text |-> s, marker |-> "invalid", arg |-> ""]
\* text without #ExportRoute(" that holds the two characters ") somewhere
Closer(s) == [text |-> s, marker |-> "closer", arg |-> ""]
Space == Text(" ")
Newline == Text("\n")

TypesTs ==
    [fileName |-> "/types.ts",
     resolvedModules |-> <<>>,
     statements |-> <<
        InterfaceDeclaration("Base", 0, <<>>, <<Prop("id", NumberKw), Prop("tag", StringKw)>>, NoJsDoc),
        InterfaceDeclaration("Extra", 0, <<>>,
            <<OptProp("tag", BooleanKw), Prop("note", StringKw)>>, NoJsDoc),
        TypeAliasDeclaration("Local", 0, StringKw, NoJsDoc),
        TypeAliasDeclaration("Wrapped", 0, ArrayTypeNode(Ref("Local")), NoJsDoc),
        TypeAliasDeclaration("Callback", 0, FunctionTypeNode, NoJsDoc),
        TypeAliasDeclaration("Bad", 0, TypeLiteralNode(<<Prop("cb", Ref("Callback"))>>), NoJsDoc),
        EnumDeclaration("Status",
            <<EnumMember("OPEN", Literal("StringLiteral", "open")),
              EnumMember("DONE", Literal("StringLiteral", "done"))>>,
            NoJsDoc),
        ClassDeclaration("Model"),
        InterfaceDeclaration("Handlers", 0, <<>>,
            <<Prop("run", FunctionTypeNode), Prop("label", StringKw)>>, NoJsDoc),
        TypeAliasDeclaration("Keys", 0, KeyOf(Ref("Handlers")), NoJsDoc),
        TypeAliasDeclaration("Self", 0, Ref("Base"), NoJsDoc),
        InterfaceDeclaration("Box", 1, <<>>, <<Prop("value", Ref("T"))>>, NoJsDoc),
        TypeAliasDeclaration("Maybe", 1, UnionTypeNode(<<Ref("T"), NullKw>>), NoJsDoc)
     >>]

ATs ==
    [fileName |-> "/a.ts",
     resolvedModules |-> [x \in {"./types", "./missing"} |->
                            IF x = "./types" THEN "/types.ts" ELSE NULL],
     statements |-> <<
        ImportDeclaration("./types", TRUE, NamedImports(<<
            ImportSpecifier("Base", NULL), ImportSpecifier("Wrapped", NULL),
            ImportSpecifier("Broken", "Bad"), ImportSpecifier("Extra", NULL),
            ImportSpecifier("Box", NULL), ImportSpecifier("Maybe", NULL)>>)),
        ImportDeclaration("./types", TRUE, NamespaceImport("ns")),
        ImportDeclaration("./missing", TRUE, NamedImports(<<ImportSpecifier("Gone", NULL)>>)),
        ImportDeclaration("./types", FALSE, NoBindings),
        TypeAliasDeclaration("Local", 0, NumberKw, NoJsDoc),
        InterfaceDeclaration("ARoutes", 0, <<>>, <<
            PropertySignature("StringLiteral", "/x", FALSE, TypeLiteralNode(<<
                Prop("GET", TypeLiteralNode(<<
                    Prop("name", StringLiteralType("Get X")),
                    Prop("body", Ref("Wrapped")),
                    Prop("response", TypeLiteralNode(<<
                        PropertySignature("NumericLiteral", "200", FALSE, Ref("Base"), NoJsDoc),
                        PropertySignature("NumericLiteral", "204", FALSE, UndefinedKw, NoJsDoc)>>))
                >>))>>), NoJsDoc)>>,
            <<Doc(<<Text("Routes of A."), Space, Marker("#ExportRoute(\"/a\")", "/a")>>)>>),
        InterfaceDeclaration("BadRoutes", 0, <<>>, <<
            PropertySignature("StringLiteral", "/y", FALSE, TypeLiteralNode(<<
                Prop("POST", TypeLiteralNode(<<Prop("body", Ref("Broken"))>>))>>), NoJsDoc)>>,
            <<Doc(<<Marker("#ExportRoute(\"/bad\")", "/bad")>>)>>),
        TypeAliasDeclaration("LateRoutes", 0, TypeLiteralNode(<<
            PropertySignature("StringLiteral", "/l", FALSE, TypeLiteralNode(<<
                Prop("GET", TypeLiteralNode(<<
                    Prop("param", TypeLiteralNode(<<Prop("id", Ref("Local"))>>))>>))>>), NoJsDoc)>>),
            <<Doc(<<Marker("#ExportRoute(\"/late\")", "/late")>>)>>)
     >>]

BTs ==
    [fileName |-> "/b.ts",
     resolvedModules |-> [x \in {"./types", "./missing"} |->
                            IF x = "./types" THEN "/types.ts" ELSE NULL],
     statements |-> <<
        ImportDeclaration("./types", TRUE, NamedImports(<<ImportSpecifier("Status", NULL)>>)),
        ImportDeclaration("./missing", TRUE, NamedImports(<<ImportSpecifier("Lost", NULL)>>)),
        TypeAliasDeclaration("BRoutes", 0, TypeLiteralNode(<<
            PropertySignature("StringLiteral", "/z", FALSE, TypeLiteralNode(<<
                Prop("PUT", TypeLiteralNode(<<
                    Prop("query", TypeLiteralNode(<<OptProp("s", Ref("Status"))>>))>>))>>), NoJsDoc)>>),
            <<Doc(<<Marker("#ExportRoute(\"/b\")", "/b"), Space, Text("Routes of B.")>>)>>),
        InterfaceDeclaration("Unmarked", 0, <<>>, <<
            PropertySignature("StringLiteral", "/u", FALSE, TypeLiteralNode(<<
                Prop("GET", TypeLiteralNode(<<>>))>>), NoJsDoc)>>,
            <<Doc(<<Text("Not exported.")>>)>>)
     >>]

CTs ==
    [fileName |-> "/c.ts",
     resolvedModules |-> [x \in {"./types"} |-> "/types.ts"],
     statements |-> <<
        ImportDeclaration("./types", TRUE, NamedImports(<<ImportSpecifier("Base", NULL)>>)),
        InterfaceDeclaration("CRoutes", 0, <<>>, <<
            PropertySignature("StringLiteral", "/c", FALSE, TypeLiteralNode(<<
                Prop("GET", TypeLiteralNode(<<Prop("body", Ref("Child"))>>))>>), NoJsDoc)>>,
            <<Doc(<<Marker("#ExportRoute(\"/c\")", "/c")>>)>>),
        InterfaceDeclaration("Child", 0, <<<<Extends("Base")>>>>,
            <<Prop("own", StringKw), Prop("tag", StringLiteralType("fixed"))>>, NoJsDoc),
        InterfaceDeclaration("Orphan", 0, <<<<Extends("Nowhere")>>>>, <<Prop("own", StringKw)>>, NoJsDoc)
     >>]

(* /d.ts: a router with the name of the router of /b.ts *)
DTs ==
    [fileName |-> "/d.ts",
     resolvedModules |-> <<>>,
     statements |-> <<
        InterfaceDeclaration("BRoutes", 0, <<>>, <<
            PropertySignature("StringLiteral", "/d", FALSE, TypeLiteralNode(<<
                Prop("GET", TypeLiteralNode(<<>>))>>), NoJsDoc)>>,
            <<Doc(<<Marker("#ExportRoute(\"/d\")", "/d")>>)>>)
     >>]

(* /cyc.ts: declarations that refer to themselves, and two that do not
       import { Base, Wrapped } from "./types";
       interface Node { value: number; next: Node; }
       type List = List[];
       interface Ping { pong: Pong; }
       interface Pong { ping: Ping | null; }
       interface Loop extends Loop { x: string; }
       interface Kid extends Parent {}
       interface Parent { kid: Kid; }
       interface Fn { cb: () => void; self: Fn; }
       interface Tree { children(): Tree; label: string; }
       interface Dict { [key: string]: Dict; }
       type Plain = { a: Base; b: Wrapped[]; };
       type Deep = [Plain, string | Plain];                                      *)
\* a method signature and an index signature with the type they declare
MethodReturning(text, type) ==
    [kind |-> "MethodSignature", hasName |-> TRUE,
     name |-> [kind |-> "Identifier", text |-> text], type |-> type, jsDoc |-> NoJsDoc]
IndexSignatureOf(type) ==
    [kind |-> "IndexSignature", hasName |-> FALSE, type |-> type, jsDoc |-> NoJsDoc]

CycTs ==
    [fileName |-> "/cyc.ts",
     resolvedModules |-> [x \in {"./types"} |-> "/types.ts"],
     statements |-> <<
        ImportDeclaration("./types", TRUE, NamedImports(<<
            ImportSpecifier("Base", NULL), ImportSpecifier("Wrapped", NULL)>>)),
        InterfaceDeclaration("Node", 0, <<>>,
            <<Prop("value", NumberKw), Prop("next", Ref("Node"))>>, NoJsDoc),
        TypeAliasDeclaration("List", 0, ArrayTypeNode(Ref("List")), NoJsDoc),
        InterfaceDeclaration("Ping", 0, <<>>, <<Prop("pong", Ref("Pong"))>>, NoJsDoc),
        InterfaceDeclaration("Pong", 0, <<>>,
            <<Prop("ping", UnionTypeNode(<<Ref("Ping"), NullKw>>))>>, NoJsDoc),
        InterfaceDeclaration("Loop", 0, <<<<Extends("Loop")>>>>, <<Prop("x", StringKw)>>, NoJsDoc),
        InterfaceDeclaration("Kid", 0, <<<<Extends("Parent")>>>>, <<>>, NoJsDoc),
        InterfaceDeclaration("Parent", 0, <<>>, <<Prop("kid", Ref("Kid"))>>, NoJsDoc),
        InterfaceDeclaration("Fn", 0, <<>>,
            <<Prop("cb", FunctionTypeNode), Prop("self", Ref("Fn"))>>, NoJsDoc),
        InterfaceDeclaration("Tree", 0, <<>>,
            <<MethodReturning("children", Ref("Tree")), Prop("label", StringKw)>>, NoJsDoc),
        InterfaceDeclaration("Dict", 0, <<>>, <<IndexSignatureOf(Ref("Dict"))>>, NoJsDoc),
        TypeAliasDeclaration("Plain", 0, TypeLiteralNode(
            <<Prop("a", Ref("Base")), Prop("b", ArrayTypeNode(Ref("Wrapped")))>>), NoJsDoc),
        TypeAliasDeclaration("Deep", 0, TupleTypeNode(
            <<Ref("Plain"), UnionTypeNode(<<StringKw, Ref("Plain")>>)>>), NoJsDoc)
     >>]

Paths == {"/a.ts", "/b.ts", "/c.ts", "/d.ts", "/types.ts"}
SourceFileAt(path) ==
    CASE path = "/a.ts" -> ATs
      [] path = "/b.ts" -> BTs
      [] path = "/c.ts" -> CTs
      [] path = "/d.ts" -> DTs
      [] path = "/types.ts" -> TypesTs
      [] path = "/cyc.ts" -> CycTs

-----------------------------------------------------------------------------
(* Errors (TypeParseFailure.ts) *)

\* ts.createPrinter().printNode(...): the text of a node, represented by the
\* syntax it prints
printNode(node) == [printed |-> node]

NoError == [class |-> "none", description |-> "", failureOn |-> <<>>,
            unknownError |-> NULL, in |-> <<>>]
\* new Error(message)
Error(message) == [class |-> "Error", description |-> message, failureOn |-> <<>>,
                   unknownError |-> NULL, in |-> <<>>]
\* TypeParseFailure.badType / unhandledType
badType(type) ==
    [class |-> "TypeParseFailure", description |-> "Bad type for Web API",
     failureOn |-> <<printNode(type)>>, unknownError |-> NULL, in |-> <<>>]
unhandledType(type) ==
    [class |-> "TypeParseFailure", description |-> "Unhandled type",
     failureOn |-> <<printNode(type)>>, unknownError |-> NULL, in |-> <<>>]
\* TypeParseFailure.withContext
withContext(error, type) ==
    IF error.class = "TypeParseFailure"
    THEN [error EXCEPT !.in = Append(error.in, printNode(type))]
    ELSE [class |-> "TypeParseFailure", description |-> error.description,
          failureOn |-> <<>>, unknownError |-> error.description,
          in |-> <<printNode(type)>>]

-----------------------------------------------------------------------------
(* RoutesFrontend: the frontend object is [program, imports, currentModule,
   currentSourceFile]; program is the set of paths of the program's source
   files, a source file object is represented by its path. *)

Frontend(program, imps, module, sourceFile) ==
    [program |-> program, imports |-> imps,
     currentModule |-> module, currentSourceFile |-> sourceFile]

\* setCurrentModule
setCurrentModule(fe, moduleName, sourceFile) ==
    [fe EXCEPT !.currentModule = moduleName, !.currentSourceFile = sourceFile]

\* getMemberName: [status, name]; status "throw" for a computed property name
getMemberName(member) ==
    IF member.name.kind \in {"Identifier", "StringLiteral", "NumericLiteral"}
    THEN [status |-> "ok", name |-> member.name.text,  err |-> NoError]
    ELSE IF member.name.kind = "ComputedPropertyName"
    THEN [status |-> "throw", name |-> NULL,
          err |-> Error("Can not process a computed property name as route name")]
    ELSE [status |-> "ok", name |-> NULL, err |-> NoError]

\* the last segment of a name only
rightmostName(entity) ==
    IF entity.kind = "Identifier" THEN <<entity.text>> ELSE <<entity.right.text>>

\* showEntityName: the dotted name, as the sequence of its segments
RECURSIVE showEntityName(_)
showEntityName(entity) ==
    IF entity.kind = "Identifier" THEN <<entity.text>>
    ELSE Append(showEntityName(entity.left), entity.right.text)

NotFound == [status |-> "null", module |-> NULL, sourceFile |-> NULL,
             node |-> MissingNode, err |-> NoError]
Found(module, sourceFile, node) ==
    [status |-> "found", module |-> module, sourceFile |-> sourceFile,
     node |-> node, err |-> NoError]

\* the statement kinds lookupNode compares the name of
NamedStatementKinds ==
    {"FunctionDeclaration", "ClassDeclaration", "InterfaceDeclaration",
     "TypeAliasDeclaration", "EnumDeclaration", "NamespaceExportDeclaration"}

\* lookupNode: the forEachChild scan of the module's source file, which stops
\* at the first statement of a named kind with that name
RECURSIVE findNode(_, _, _, _)
findNode(moduleName, stmts, i, nodeName) ==
    IF i > Len(stmts) THEN NotFound
    ELSE IF stmts[i].kind \in NamedStatementKinds /\ stmts[i].name = nodeName
    THEN Found(moduleName, moduleName, stmts[i])
    ELSE findNode(moduleName, stmts, i + 1, nodeName)

lookupNode(fe, moduleName, nodeName) ==
    IF moduleName \notin fe.program THEN NotFound
    ELSE findNode(moduleName, SourceFileAt(moduleName).statements, 1, nodeName)

\* lookupIdentifierInCurrentModule
lookupIdentifierInCurrentModule(fe, identifier) ==
    IF fe.currentModule = NULL THEN NotFound
    ELSE lookupNode(fe, fe.currentModule, identifier)

\* a lookup that takes no account of the imports of the module
lookupWithoutImports(fe, identifier) == lookupIdentifierInCurrentModule(fe, identifier)

\* lookupIdentifier
lookupIdentifier(fe, identifier) ==
    IF fe.currentModule = NULL THEN NotFound
    ELSE IF /\ fe.currentModule \in DOMAIN fe.imports
            /\ identifier \in DOMAIN fe.imports[fe.currentModule]
    THEN lookupNode(fe, fe.imports[fe.currentModule][identifier][1],
                    fe.imports[fe.currentModule][identifier][2])
    ELSE lookupIdentifierInCurrentModule(fe, identifier)

\* lookupEntity, the member search of an interface or type literal
RECURSIVE FindMember(_, _, _, _)
FindMember(left, members, i, rightName) ==
    IF i > Len(members) THEN NotFound
    ELSE IF members[i].hasName /\ members[i].kind = "PropertySignature"
    THEN Only({IF n.status = "throw"
               THEN [NotFound EXCEPT !.status = "throw", !.err = n.err]
               ELSE IF n.name = rightName
               THEN Found(left.module, left.sourceFile, members[i])
               ELSE FindMember(left, members, i + 1, rightName)
               : n \in {getMemberName(members[i])}})
    ELSE FindMember(left, members, i + 1, rightName)

\* lookupEntity: status "found", "null", or "throw"
RECURSIVE lookupEntity(_, _)
lookupEntity(fe, entity) ==
    IF entity.kind = "Identifier" THEN lookupIdentifier(fe, entity.text)
    ELSE Only({IF left.status # "found" THEN left
               ELSE IF left.node.kind \in {"InterfaceDeclaration", "TypeLiteral"}
               THEN FindMember(left, left.node.members, 1, entity.right.text)
               ELSE NotFound
               : left \in {lookupEntity(fe, entity.left)}})

-----------------------------------------------------------------------------
(* Numeric literal texts and numbers.  A text is [whole, frac], the decimal
   digits before and after the point; a number is the fraction n / d with d a
   power of ten. *)

Number(n, d) == [n |-> n, d |-> d]

RECURSIVE DigitsValue(_, _, _)
DigitsValue(digits, i, acc) ==
    IF i > Len(digits) THEN acc ELSE DigitsValue(digits, i + 1, acc * 10 + digits[i])

RECURSIVE PowerOfTen(_)
PowerOfTen(k) == IF k = 0 THEN 1 ELSE 10 * PowerOfTen(k - 1)

\* Number(text)
NumberOfText(text) ==
    Number(DigitsValue(text.whole \o text.frac, 1, 0), PowerOfTen(Len(text.frac)))

\* parseInt(text, 10): the leading run of digits
parseInt(text) == Number(DigitsValue(text.whole, 1, 0), 1)

-----------------------------------------------------------------------------
(* performKeyOf *)

Range(seq) == {seq[i] : i \in 1..Len(seq)}

KeyOfOk(type, all, strings) ==
    [status |-> "ok", err |-> NoError,
     val |-> [BaseType("String", type.name, type.documentation)
                EXCEPT !.all = all, !.strings = strings]]
\* no keys instead of the throw
KeyOfNothing(err) ==
    [status |-> "ok", err |-> NoError, val |-> BaseType("String", NullName, NullDoc)]
KeyOfThrow(err) == [status |-> "throw", err |-> err, val |-> NoType]

\* the reducer of the intersection branch; a key set is [all, strings]
intersectionStep(acc, strings) ==
    IF strings.all THEN acc
    ELSE IF acc.all THEN strings
    ELSE [all |-> FALSE,
          strings |-> LET keep(s) == s \in Range(strings.strings)
                      IN SelectSeq(acc.strings, keep)]

\* a union reducer that lets "all" operands pass like the intersection's does
unionStepSkippingAll(acc, strings) ==
    IF strings.all THEN acc
    ELSE IF acc.all THEN strings
    ELSE [all |-> FALSE,
          strings |-> acc.strings \o SelectSeq(strings.strings,
                                               LAMBDA s : s \notin Range(acc.strings))]

\* the reducer of the union branch
unionStep(acc, strings) ==
    IF strings.all \/ acc.all THEN [all |-> TRUE, strings |-> <<>>]
    ELSE [all |-> FALSE,
          strings |-> LET fresh(s) == s \notin Range(acc.strings)
                      IN acc.strings \o SelectSeq(strings.strings, fresh)]

RECURSIVE reduceKeys(_, _, _, _)
reduceKeys(kind, keys, i, acc) ==
    IF i > Len(keys) THEN acc
    ELSE reduceKeys(kind, keys, i + 1,
                    IF kind = "Intersection" THEN intersectionStep(acc, keys[i])
                    ELSE unionStep(acc, keys[i]))

RECURSIVE performKeyOf(_)
RECURSIVE mapKeyOf(_, _, _)
\* type.union.map((t) => this.performKeyOf(t).strings): [status, err, keys]
mapKeyOf(types, i, acc) ==
    IF i > Len(types) THEN [status |-> "ok", err |-> NoError, keys |-> acc]
    ELSE Only({IF k.status = "throw"
               THEN [status |-> "throw", err |-> k.err, keys |-> <<>>]
               ELSE mapKeyOf(types, i + 1,
                             Append(acc, [all |-> k.val.all, strings |-> k.val.strings]))
               : k \in {performKeyOf(types[i])}})

\* what performKeyOf returns for a union or intersection whose parts gave keys m
keyOfParts(type, m) ==
    IF m.status = "throw" THEN KeyOfThrow(m.err)
    ELSE Only({KeyOfOk(type, r.all, r.strings)
               : r \in {reduceKeys(type.kind, m.keys, 1,
                                   [all |-> type.kind = "Intersection", strings |-> <<>>])}})

performKeyOf(type) ==
    IF type.kind = "Object"
    THEN KeyOfOk(type, FALSE, MemberNames(type.objectMembers))
    ELSE IF type.kind \in {"Intersection", "Union"}
    THEN keyOfParts(type, mapKeyOf(type.sub, 1, <<>>))
    ELSE KeyOfThrow(Error("Failed to perform keyof"))

-----------------------------------------------------------------------------
(* parseType.  A call returns [status, val, err, fe]: status "ok" with the Type
   val, or "throw" with the error err; fe is the frontend object as the call
   leaves it. *)

Ok(fe, val) == [status |-> "ok", val |-> val, err |-> NoError, fe |-> fe]
Throw(fe, err) == [status |-> "throw", val |-> NoType, err |-> err, fe |-> fe]
Break(fe) == [status |-> "break", val |-> NoType, err |-> NoError, fe |-> fe]

\* getCurrentSourceFile() as the argument of an error constructor: it throws
\* its own error when no source file is set
withSourceFile(fe, err) ==
    IF fe.currentSourceFile = NULL THEN Error("No source file set") ELSE err

\* a restore written after the nested call instead of in a finally block: it is
\* reached on return only
restoreOnReturn(inner, oldModule, oldSourceFile) ==
    IF inner.status = "ok"
    THEN [inner EXCEPT !.fe = setCurrentModule(inner.fe, oldModule, oldSourceFile)]
    ELSE inner

\* the finally block of the TypeReference and ExpressionWithTypeArguments cases:
\* this.setCurrentModule(oldModule, oldSourceFile) on return and on throw
finallyRestore(inner, oldModule, oldSourceFile) ==
    [inner EXCEPT !.fe = setCurrentModule(inner.fe, oldModule, oldSourceFile)]

\* the operands of the optional rewrite in the other order
undefinedFirst(parsed) ==
    UnionType(<<UndefinedType(NoDocField), parsed>>, NullName, NullDoc)

\* the rewrite of an optional property's type
optionalMember(parsed) ==
    UnionType(<<parsed, UndefinedType(NoDocField)>>, NullName, NullDoc)

\* { ...objectMembers, ...parsedType.objectMembers } of the heritage loop
mergeHeritage(objectMembers, parsedType) ==
    IF parsedType.kind = "Object"
    THEN Spread(objectMembers, parsedType.objectMembers, 1)
    ELSE objectMembers

\* the Type pushed for an enum member at position memberCounter:
\* [status, val, err]
enumMemberType(member, memberCounter) ==
    IF member.initializer.kind = "none"
    THEN [status |-> "ok", err |-> NoError,
          val |-> Numbers(<<Number(memberCounter, 1)>>, NullName, getDocumentation(member))]
    ELSE IF member.initializer.kind = "NumericLiteral"
    THEN [status |-> "ok", err |-> NoError,
          val |-> Numbers(<<parseInt(member.initializer.num)>>, NullName, getDocumentation(member))]
    ELSE IF member.initializer.kind = "StringLiteral"
    THEN [status |-> "ok", err |-> NoError,
          val |-> Strings(<<member.initializer.text>>, NullName, getDocumentation(member))]
    ELSE [status |-> "throw", err |-> Error("Unknown enum member kind"), val |-> NoType]

\* the loop over the members of an enum: [status, vals, err]
RECURSIVE enumUnion(_, _, _)
enumUnion(members, memberCounter, union) ==
    IF memberCounter >= Len(members)
    THEN [status |-> "ok", err |-> NoError, vals |-> union]
    ELSE Only({IF t.status = "throw" THEN [status |-> "throw", err |-> t.err, vals |-> <<>>]
               ELSE enumUnion(members, memberCounter + 1, Append(union, t.val))
               : t \in {enumMemberType(members[memberCounter + 1], memberCounter)}})

\* heritageClause.types of all clauses, in order
RECURSIVE heritageTypes(_, _)
heritageTypes(heritageClauses, i) ==
    IF i > Len(heritageClauses) THEN <<>>
    ELSE heritageClauses[i] \o heritageTypes(heritageClauses, i + 1)

RECURSIVE parseType(_, _, _, _)
RECURSIVE parseTypeCase(_, _, _, _)
RECURSIVE parseTypes(_, _, _, _, _)
RECURSIVE parseMembers(_, _, _, _, _)
RECURSIVE parseHeritage(_, _, _, _, _)
RECURSIVE parseResolved(_, _, _, _)

\* nodes.map((n) => this.parseType(n, null, isKeyof)): [status, vals, err, fe]
parseTypes(fe, nodes, i, acc, isKeyof) ==
    IF i > Len(nodes) THEN [status |-> "ok", vals |-> acc, err |-> NoError, fe |-> fe]
    ELSE Only({IF r.status # "ok"
               THEN [status |-> "throw", vals |-> <<>>, err |-> r.err, fe |-> r.fe]
               ELSE parseTypes(r.fe, nodes, i + 1, Append(acc, r.val), isKeyof)
               : r \in {parseType(fe, nodes[i], NullName, isKeyof)}})

\* the loop over the members of a type literal (the interface case repeats it):
\* [status, members, err, fe]
parseMembers(fe, members, i, objectMembers, isKeyof) ==
    IF i > Len(members)
    THEN [status |-> "ok", members |-> objectMembers, err |-> NoError, fe |-> fe]
    ELSE IF ~members[i].hasName \/ members[i].kind # "PropertySignature"
    THEN parseMembers(fe, members, i + 1, objectMembers, isKeyof)
    ELSE Only({
        IF n.status = "throw"
        THEN [status |-> "throw", members |-> <<>>, err |-> n.err, fe |-> fe]
        ELSE IF n.name = NULL
        THEN parseMembers(fe, members, i + 1, objectMembers, isKeyof)
        ELSE Only({IF r.status # "ok"
                   THEN [status |-> "throw", members |-> <<>>, err |-> r.err, fe |-> r.fe]
                   ELSE parseMembers(r.fe, members, i + 1,
                            SetMember(objectMembers, n.name,
                                      IF members[i].questionToken THEN optionalMember(r.val)
                                      ELSE r.val),
                            isKeyof)
                   : r \in {parseType(fe, members[i].type, NullName, isKeyof)}})
        : n \in {getMemberName(members[i])}})

\* the loop over the extends clauses of an interface: [status, members, err, fe]
parseHeritage(fe, types, i, objectMembers, isKeyof) ==
    IF i > Len(types)
    THEN [status |-> "ok", members |-> objectMembers, err |-> NoError, fe |-> fe]
    ELSE Only({IF r.status # "ok"
               THEN [status |-> "throw", members |-> <<>>, err |-> r.err, fe |-> r.fe]
               ELSE parseHeritage(r.fe, types, i + 1,
                                  mergeHeritage(objectMembers, r.val), isKeyof)
               : r \in {parseType(fe, types[i], NullName, isKeyof)}})

\* a resolved reference: switch to the target's module, translate the target,
\* restore (lines 497-509 and 516-528)
parseResolved(fe, r, name, isKeyof) ==
    finallyRestore(
        parseType(setCurrentModule(fe, r.module, r.sourceFile), r.node, name, isKeyof),
        fe.currentModule, fe.currentSourceFile)

\* the result of a case that wraps one translated Type
wrapOne(r, val) == IF r.status # "ok" THEN r ELSE Ok(r.fe, val)
\* the result of a case built from a list of translated Types or members
wrapList(r, val) == IF r.status # "ok" THEN Throw(r.fe, r.err) ELSE Ok(r.fe, val)

\* the keyof case after its operand is translated
keyOfCase(parsed, k, name, doc) ==
    IF parsed.status # "ok" THEN parsed
    ELSE IF k.status = "throw" THEN Throw(parsed.fe, k.err)
    ELSE Ok(parsed.fe, [k.val EXCEPT !.documentation = doc, !.name = name])

\* the type alias case after the aliased type is translated
aliasCase(r, doc) ==
    IF r.status # "ok" THEN r
    ELSE IF r.val.documentation.state = "null"
    THEN Ok(r.fe, [r.val EXCEPT !.documentation = doc])
    ELSE r

\* the switch of parseType, inside its try block; status "break" when the
\* switch is left without return
parseTypeCase(fe, type, name, isKeyof) ==
    CASE type.kind = "BooleanKeyword" -> Ok(fe, BooleanAll(name, getDocumentation(type)))
      [] type.kind = "NumberKeyword" -> Ok(fe, NumberAll(name, getDocumentation(type)))
      [] type.kind = "StringKeyword" -> Ok(fe, StringAll(name, getDocumentation(type)))
      [] type.kind = "ObjectKeyword" -> Ok(fe, ObjectType(<<>>, name, getDocumentation(type)))
      [] type.kind = "NullKeyword" -> Ok(fe, NullType(getDocumentation(type)))
      [] type.kind = "UndefinedKeyword" -> Ok(fe, UndefinedType(getDocumentation(type)))
      [] type.kind = "FunctionType" ->
            IF isKeyof THEN Ok(fe, IntersectionType(<<>>, NullName, NullDoc))
            ELSE Throw(fe, withSourceFile(fe, badType(type)))
      [] type.kind = "ArrayType" ->
            Only({wrapOne(r, ArrayType(r.val, name, getDocumentation(type)))
                  : r \in {parseType(fe, type.elementType, NullName, isKeyof)}})
      [] type.kind = "LiteralType" ->
            IF type.literal.kind \in {"TrueKeyword", "FalseKeyword"}
            THEN Ok(fe, Booleans(<<type.literal.kind = "TrueKeyword">>, name, getDocumentation(type)))
            ELSE IF type.literal.kind = "NumericLiteral"
            THEN Ok(fe, Numbers(<<NumberOfText(type.literal.num)>>, name, getDocumentation(type)))
            ELSE IF type.literal.kind = "StringLiteral"
            THEN Ok(fe, Strings(<<type.literal.text>>, name, getDocumentation(type)))
            ELSE Break(fe)
      [] type.kind = "TupleType" ->
            Only({wrapList(r, TupleType(r.vals, name, getDocumentation(type)))
                  : r \in {parseTypes(fe, type.elementTypes, 1, <<>>, isKeyof)}})
      [] type.kind = "TypeReference" ->
            Only({IF r.status = "throw" THEN Throw(fe, r.err)
                  ELSE IF r.status = "null"
                  THEN Ok(fe, ObjectType(<<>>, showEntityName(type.typeName),
                                         getDocumentation(type)))
                  ELSE parseResolved(fe, r,
                          IF name = NullName THEN showEntityName(type.typeName) ELSE name,
                          isKeyof)
                  : r \in {lookupEntity(fe, type.typeName)}})
      [] type.kind = "ExpressionWithTypeArguments" ->
            IF type.expression.kind # "Identifier"
            THEN Throw(fe, Error("Failed to get type from identifier"))
            ELSE Only({IF r.status = "found"
                       THEN parseResolved(fe, r,
                               IF name = NullName THEN <<type.expression.text>> ELSE name,
                               isKeyof)
                       ELSE Break(fe)
                       : r \in {lookupIdentifier(fe, type.expression.text)}})
      [] type.kind = "TypeOperator" ->
            IF type.operator = "KeyOfKeyword"
            THEN Only({keyOfCase(parsed,
                                 IF parsed.status = "ok" THEN performKeyOf(parsed.val)
                                 ELSE KeyOfThrow(parsed.err),
                                 name, getDocumentation(type))
                       : parsed \in {parseType(fe, type.type, NullName, TRUE)}})
            ELSE Break(fe)
      [] type.kind = "TypeLiteral" ->
            Only({wrapList(m, ObjectType(m.members, name, getDocumentation(type)))
                  : m \in {parseMembers(fe, type.members, 1, <<>>, isKeyof)}})
      [] type.kind = "InterfaceDeclaration" ->
            Only({IF m.status # "ok" THEN Throw(m.fe, m.err)
                  ELSE Only({wrapList(h, ObjectType(h.members, name, getDocumentation(type)))
                             : h \in {parseHeritage(m.fe, heritageTypes(type.heritageClauses, 1),
                                                    1, m.members, isKeyof)}})
                  : m \in {parseMembers(fe, type.members, 1, <<>>, isKeyof)}})
      [] type.kind = "EnumDeclaration" ->
            Only({IF u.status # "ok" THEN Throw(fe, u.err)
                  ELSE Ok(fe, UnionType(u.vals, name, getDocumentation(type)))
                  : u \in {enumUnion(type.members, 0, <<>>)}})
      [] type.kind = "UnionType" ->
            Only({wrapList(r, UnionType(r.vals, name, getDocumentation(type)))
                  : r \in {parseTypes(fe, type.types, 1, <<>>, isKeyof)}})
      [] type.kind = "IntersectionType" ->
            Only({wrapList(r, IntersectionType(r.vals, name, getDocumentation(type)))
                  : r \in {parseTypes(fe, type.types, 1, <<>>, isKeyof)}})
      [] type.kind = "TypeAliasDeclaration" ->
            IF type.typeParameters > 0
            THEN Throw(fe, Error("Type parameters not implemented"))
            ELSE aliasCase(parseType(fe, type.type,
                                     IF name # NullName THEN name ELSE <<type.name>>, isKeyof),
                           getDocumentation(type))
      [] type.kind = "undefined" -> Throw(fe, Error("TypeError: reading kind of undefined"))
      [] OTHER -> Break(fe)

\* the catch clause and the statement after the switch
catchOrUnhandled(r, type) ==
    IF r.status = "throw"
    THEN Throw(r.fe, withSourceFile(r.fe, withContext(r.err, type)))
    ELSE IF r.status = "break"
    THEN Throw(r.fe, withSourceFile(r.fe, unhandledType(type)))
    ELSE r

\* parseType: the catch clause wraps what the switch throws, and leaving the
\* switch without a return throws unhandledType outside the try block
parseType(fe, type, name, isKeyof) ==
    catchOrUnhandled(parseTypeCase(fe, type, name, isKeyof), type)

-----------------------------------------------------------------------------
(* The route model builder: findMethodCallInfo, findMethods, findRoutes,
   processRouterNode.  Results are [status, val, err, fe] as for parseType. *)

\* The characters of the property names that occur as response codes.
Chars(s) ==
    CASE s = "200" -> <<"2", "0", "0">>
      [] s = "204" -> <<"2", "0", "4">>
      [] s = "404" -> <<"4", "0", "4">>
      [] s = "20x" -> <<"2", "0", "x">>
      [] s = "ok" -> <<"o", "k">>
      [] s = "-1" -> <<"-", "1">>
      [] OTHER -> <<"?">>

DigitChars == {"0", "1", "2", "3", "4", "5", "6", "7", "8", "9"}
DigitOf(c) ==
    CASE c = "0" -> 0 [] c = "1" -> 1 [] c = "2" -> 2 [] c = "3" -> 3 [] c = "4" -> 4
      [] c = "5" -> 5 [] c = "6" -> 6 [] c = "7" -> 7 [] c = "8" -> 8 [] c = "9" -> 9

\* Number.parseInt(s, 10) of a property name without leading blanks: the value
\* of the digits that follow an optional sign, [nan |-> TRUE] when there are none
RECURSIVE leadingDigits(_, _)
leadingDigits(chars, i) ==
    IF i > Len(chars) \/ chars[i] \notin DigitChars THEN <<>>
    ELSE <<DigitOf(chars[i])>> \o leadingDigits(chars, i + 1)

signedDigits(chars) ==
    IF Len(chars) > 0 /\ chars[1] \in {"-", "+"}
    THEN [sign |-> IF chars[1] = "-" THEN -1 ELSE 1, digits |-> leadingDigits(chars, 2)]
    ELSE [sign |-> 1, digits |-> leadingDigits(chars, 1)]

parseIntName(s) ==
    Only({IF sd.digits = <<>> THEN [nan |-> TRUE, value |-> 0]
          ELSE [nan |-> FALSE, value |-> sd.sign * DigitsValue(sd.digits, 1, 0)]
          : sd \in {signedDigits(Chars(s))}})

NoTyped == [isNull |-> TRUE, documentation |-> NullDoc, type |-> NoType]
Typed(doc, type) == [isNull |-> FALSE, documentation |-> doc, type |-> type]

DefaultCallInfo ==
    [authorization |-> NoTyped, body |-> NoTyped, name |-> <<"UNNAMED">>,
     params |-> <<>>, query |-> <<>>, responses |-> <<>>]

\* a member the member loops skip before reading its name (continue)
Skipped(member) == ~member.hasName \/ member.kind # "PropertySignature"

RECURSIVE paramMembers(_, _, _, _)
RECURSIVE queryMembers(_, _, _, _)
RECURSIVE responseMembers(_, _, _, _)
RECURSIVE findMethodCallInfoOnMembers(_, _, _, _)
RECURSIVE findMethodCallInfo(_, _)
RECURSIVE findMethodsOnMembers(_, _, _, _)
RECURSIVE findMethods(_, _)
RECURSIVE findRoutes(_, _, _, _)
RECURSIVE processRouterNode(_, _, _, _, _)

\* the loop of case "param"
paramMembers(fe, members, i, params) ==
    IF i > Len(members) THEN Ok(fe, params)
    ELSE IF Skipped(members[i]) THEN paramMembers(fe, members, i + 1, params)
    ELSE Only({
        IF n.status = "throw" THEN Throw(fe, n.err)
        ELSE IF n.name = NULL \/ members[i].type.kind = "undefined"
        THEN paramMembers(fe, members, i + 1, params)
        ELSE Only({IF r.status # "ok" THEN r
                   ELSE paramMembers(r.fe, members, i + 1,
                            Append(params, [documentation |-> getDocumentation(members[i]),
                                            name |-> n.name, type |-> r.val]))
                   : r \in {parseType(fe, members[i].type, NullName, FALSE)}})
        : n \in {getMemberName(members[i])}})

\* the loop of case "query"
queryMembers(fe, members, i, query) ==
    IF i > Len(members) THEN Ok(fe, query)
    ELSE IF Skipped(members[i]) THEN queryMembers(fe, members, i + 1, query)
    ELSE Only({
        IF n.status = "throw" THEN Throw(fe, n.err)
        ELSE IF n.name = NULL \/ members[i].type.kind = "undefined"
        THEN queryMembers(fe, members, i + 1, query)
        ELSE Only({IF r.status # "ok" THEN r
                   ELSE queryMembers(r.fe, members, i + 1,
                            Append(query, [documentation |-> getDocumentation(members[i]),
                                           name |-> n.name,
                                           required |-> ~members[i].questionToken,
                                           type |-> r.val]))
                   : r \in {parseType(fe, members[i].type, NullName, FALSE)}})
        : n \in {getMemberName(members[i])}})

\* Number.parseInt(name, 10) of a member name, NaN for a member without name
responseCode(name) ==
    IF name = NULL THEN [nan |-> TRUE, value |-> 0] ELSE parseIntName(name)

\* the body of a response: none for the undefined keyword, else the translated
\* type; [status, val, err, fe]
responseBody(fe, type) ==
    IF type.kind = "UndefinedKeyword" THEN Ok(fe, NoTyped)
    ELSE Only({IF r.status # "ok" THEN r ELSE Ok(r.fe, Typed(NullDoc, r.val))
               : r \in {parseType(fe, type, NullName, FALSE)}})

\* the loop of case "response"
responseMembers(fe, members, i, responses) ==
    IF i > Len(members) THEN Ok(fe, responses)
    ELSE IF Skipped(members[i]) THEN responseMembers(fe, members, i + 1, responses)
    ELSE Only({
        IF n.status = "throw" THEN Throw(fe, n.err)
        ELSE Only({
            IF n.name = NULL \/ code.nan \/ members[i].type.kind = "undefined"
            THEN responseMembers(fe, members, i + 1, responses)
            ELSE Only({IF b.status # "ok" THEN b
                       ELSE responseMembers(b.fe, members, i + 1,
                               Append(responses,
                                      [documentation |-> getDocumentation(members[i]),
                                       body |-> b.val, status |-> code.value]))
                       : b \in {responseBody(fe, members[i].type)}})
            : code \in {responseCode(n.name)}})
        : n \in {getMemberName(members[i])}})

\* the member loops of the cases "param", "query" and "response"
listMembers(fe, name, ms) ==
    CASE name = "param" -> paramMembers(fe, ms, 1, <<>>)
      [] name = "query" -> queryMembers(fe, ms, 1, <<>>)
      [] name = "response" -> responseMembers(fe, ms, 1, <<>>)

\* the call info after the member of that name is read
withMember(result, name, doc, val) ==
    CASE name = "authorization" -> [result EXCEPT !.authorization = Typed(doc, val)]
      [] name = "body" -> [result EXCEPT !.body = Typed(doc, val)]
      [] name = "name" -> IF val.kind = "String" /\ ~val.all
                          THEN [result EXCEPT !.name = val.strings]
                          ELSE result
      [] name = "param" -> [result EXCEPT !.params = val]
      [] name = "query" -> [result EXCEPT !.query = val]
      [] name = "response" -> [result EXCEPT !.responses = val]

\* the cases of the switch over the member name
MethodMemberNames == {"authorization", "body", "name", "param", "query", "response"}

\* a member of another name is passed over
ignoredMember(fe, members, i, result) ==
    findMethodCallInfoOnMembers(fe, members, i + 1, result)

\* the default case of the switch over the member name
unknownMember(fe, members, i, result) == Throw(fe, Error("Unknown method member"))

\* findMethodCallInfoOnMembers: the loop over the members of a method
findMethodCallInfoOnMembers(fe, members, i, result) ==
    IF i > Len(members) THEN Ok(fe, result)
    ELSE IF Skipped(members[i]) THEN findMethodCallInfoOnMembers(fe, members, i + 1, result)
    ELSE Only({
        IF n.status = "throw" THEN Throw(fe, n.err)
        ELSE IF n.name = NULL \/ members[i].type.kind = "undefined"
        THEN findMethodCallInfoOnMembers(fe, members, i + 1, result)
        ELSE IF n.name \notin MethodMemberNames
        THEN unknownMember(fe, members, i, result)
        ELSE Only({IF r.status # "ok" THEN r
                   ELSE findMethodCallInfoOnMembers(r.fe, members, i + 1,
                            withMember(result, n.name, getDocumentation(members[i]), r.val))
                   : r \in {IF n.name \in {"authorization", "body", "name"}
                            THEN parseType(fe, members[i].type, NullName, FALSE)
                            ELSE listMembers(fe, n.name,
                                    IF members[i].type.kind = "TypeLiteral"
                                    THEN members[i].type.members ELSE <<>>)}})
        : n \in {getMemberName(members[i])}})

\* findMethodCallInfo
findMethodCallInfo(fe, node) ==
    IF node.kind \in {"TypeAliasDeclaration", "InterfaceDeclaration"}
       /\ node.typeParameters > 0
    THEN Throw(fe, Error("Type parameters not implemented"))
    ELSE IF node.kind = "TypeAliasDeclaration" THEN findMethodCallInfo(fe, node.type)
    ELSE IF node.kind \in {"InterfaceDeclaration", "TypeLiteral"}
    THEN findMethodCallInfoOnMembers(fe, node.members, 1, DefaultCallInfo)
    ELSE Ok(fe, DefaultCallInfo)

HttpMethods == {"GET", "HEAD", "POST", "PUT", "DELETE", "CONNECT", "OPTIONS", "TRACE"}

\* every name taken as a verb
anyMethodName(s) == [status |-> "ok", val |-> s, err |-> NoError]

\* methodFromNameString: [status, val, err]
methodFromNameString(s) ==
    IF s \in HttpMethods THEN [status |-> "ok", val |-> s, err |-> NoError]
    ELSE [status |-> "throw", val |-> NULL, err |-> Error("Invalid HTTP method")]

\* the method record pushed by findMethodsOnMembers
Method(doc, info, method) ==
    [documentation |-> doc,
     authorization |-> info.authorization,
     body |-> info.body,
     method |-> method,
     name |-> info.name,
     params |-> info.params,
     query |-> info.query,
     responses |-> info.responses]

\* findMethodsOnMembers
findMethodsOnMembers(fe, members, i, result) ==
    IF i > Len(members) THEN Ok(fe, result)
    ELSE IF Skipped(members[i]) THEN findMethodsOnMembers(fe, members, i + 1, result)
    ELSE Only({
        IF n.status = "throw" THEN Throw(fe, n.err)
        ELSE IF n.name = NULL \/ members[i].type.kind = "undefined"
        THEN findMethodsOnMembers(fe, members, i + 1, result)
        ELSE Only({
            IF info.status # "ok" THEN info
            ELSE Only({IF method.status # "ok" THEN Throw(info.fe, method.err)
                       ELSE findMethodsOnMembers(info.fe, members, i + 1,
                               Append(result, Method(getDocumentation(members[i]),
                                                     info.val, method.val)))
                       : method \in {methodFromNameString(n.name)}})
            : info \in {findMethodCallInfo(fe, members[i].type)}})
        : n \in {getMemberName(members[i])}})

\* findMethods
findMethods(fe, node) ==
    IF node.kind \in {"TypeAliasDeclaration", "InterfaceDeclaration"}
       /\ node.typeParameters > 0
    THEN Throw(fe, Error("Type parameters not implemented"))
    ELSE IF node.kind = "TypeAliasDeclaration" THEN findMethods(fe, node.type)
    ELSE IF node.kind \in {"InterfaceDeclaration", "TypeLiteral"}
    THEN findMethodsOnMembers(fe, node.members, 1, <<>>)
    ELSE Ok(fe, <<>>)

\* findRoutes
findRoutes(fe, members, i, result) ==
    IF i > Len(members) THEN Ok(fe, result)
    ELSE IF Skipped(members[i]) THEN findRoutes(fe, members, i + 1, result)
    ELSE Only({
        IF n.status = "throw" THEN Throw(fe, n.err)
        ELSE IF n.name = NULL \/ members[i].type.kind = "undefined"
        THEN findRoutes(fe, members, i + 1, result)
        ELSE Only({IF methods.status # "ok" THEN methods
                   ELSE findRoutes(methods.fe, members, i + 1,
                            Append(result, [documentation |-> getDocumentation(members[i]),
                                            methods |-> methods.val,
                                            route |-> n.name]))
                   : methods \in {findMethods(fe, members[i].type)}})
        : n \in {getMemberName(members[i])}})

NoRouter == [isNull |-> TRUE, documentation |-> NullDoc, name |-> NullName,
             routeBase |-> "", routes |-> <<>>]
Router(doc, name, base, routes) ==
    [isNull |-> FALSE, documentation |-> doc, name |-> name,
     routeBase |-> base, routes |-> routes]

\* a router built whatever the routes found
routerOfAny(routes, doc, name, base) ==
    IF routes.status # "ok" THEN routes
    ELSE Ok(routes.fe, Router(doc, name, base, routes.val))

\* the router of an interface or type literal whose routes were found
routerOf(routes, doc, name, base) ==
    IF routes.status # "ok" THEN routes
    ELSE IF Len(routes.val) = 0 THEN Ok(routes.fe, NoRouter)
    ELSE Ok(routes.fe, Router(doc, name, base, routes.val))

\* processRouterNode: val is the router, NoRouter for null
processRouterNode(fe, doc, base, parentName, node) ==
    IF node.kind \in {"TypeAliasDeclaration", "InterfaceDeclaration"}
       /\ node.typeParameters > 0
    THEN Throw(fe, Error("Type parameters not implemented"))
    ELSE IF node.kind = "TypeAliasDeclaration"
    THEN processRouterNode(fe, doc, base,
            IF parentName # NullName THEN parentName ELSE <<node.name>>, node.type)
    ELSE IF node.kind \in {"InterfaceDeclaration", "TypeLiteral"}
    THEN routerOf(findRoutes(fe, node.members, 1, <<>>), doc,
                  IF parentName # NullName THEN parentName
                  ELSE IF node.kind = "InterfaceDeclaration" THEN <<node.name>>
                  ELSE <<base>>,
                  base)
    ELSE Ok(fe, NoRouter)

-----------------------------------------------------------------------------
(* getRouterBase, prepareImports *)

\* doc.documentation.match(/#ExportRoute\((".*")\)/): the match starts at the
\* first chunk of that shape, 0 when there is none
firstMarker(text) ==
    LET hits == {i \in 1..Len(text) : text[i].marker \in {"string", "invalid"}} IN
    IF hits = {} THEN 0 ELSE CHOOSE i \in hits : \A j \in hits : i <= j

\* ".*" is greedy and stays within the line: the match that starts at chunk i
\* ends at the last chunk of the same line that holds the characters ")
lastCloser(text, i) ==
    LET ends == {k \in i..Len(text) :
                    /\ text[k].marker \in {"string", "invalid", "closer"}
                    /\ \A j \in i..k : text[j] # Newline} IN
    CHOOSE k \in ends : \A j \in ends : j <= k

\* String.prototype.trim on chunks: blank chunks at both ends go
RECURSIVE trimLeft(_)
trimLeft(text) ==
    IF Len(text) > 0 /\ text[1] \in {Space, Newline} THEN trimLeft(Tail(text)) ELSE text
RECURSIVE trimRight(_)
trimRight(text) ==
    IF Len(text) > 0 /\ text[Len(text)] \in {Space, Newline}
    THEN trimRight(SubSeq(text, 1, Len(text) - 1)) ELSE text
trim(text) == trimRight(trimLeft(text))

\* the match from chunk i to chunk k: JSON.parse of its group gives a string
\* only when the match is one chunk with a well-formed string; the text
\* between two quoted parts makes JSON.parse throw
matchedBase(doc, i, k) ==
    IF i = k /\ doc.text[i].marker = "string"
    THEN [base |-> doc.text[i].arg,
          doc |-> Doc(trim(SubSeq(doc.text, 1, i - 1)
                           \o SubSeq(doc.text, k + 1, Len(doc.text))))]
    ELSE [base |-> NULL, doc |-> doc]

\* getRouterBase: [base, doc], base NULL for null; doc is the documentation
\* object afterwards
getRouterBase(doc) ==
    IF doc.state # "text" THEN [base |-> NULL, doc |-> doc]
    ELSE Only({IF i = 0 THEN [base |-> NULL, doc |-> doc]
               ELSE matchedBase(doc, i, lastCloser(doc.text, i))
               : i \in {firstMarker(doc.text)}})

\* the callback compile() hands to forEachChild: [status, val, err, fe] of
\* processRouterNode, NoRouter when the node has no router base, with the base
\* and the documentation object after getRouterBase
scanResult(r, b) ==
    [status |-> r.status, val |-> r.val, err |-> r.err, fe |-> r.fe,
     base |-> b.base, doc |-> b.doc]
scanNode(fe, node) ==
    Only({IF b.base = NULL THEN scanResult(Ok(fe, NoRouter), b)
          ELSE scanResult(processRouterNode(fe, b.doc, b.base, NullName, node), b)
          : b \in {getRouterBase(getDocumentation(node))}})

\* ts.createProgram(files): the root files and every file their imports resolve to
RECURSIVE ProgramOf(_)
ProgramOf(paths) ==
    Only({IF more = paths THEN paths ELSE ProgramOf(more)
          : more \in {paths \cup (UNION {{rm[x] : x \in DOMAIN rm}
                                           : rm \in {SourceFileAt(p).resolvedModules
                                                     : p \in paths}} \ {NULL})}})

\* getResolvedModules: the import names with a resolved target
getResolvedModules(file) ==
    {x \in DOMAIN file.resolvedModules : file.resolvedModules[x] # NULL}

\* the throw that prepareImports has commented out
failedImport(acc, importName, fileName) ==
    [acc EXCEPT !.status = "throw",
                !.stderr = @ \cup {<<"Failed to resolve import", importName, fileName>>}]

\* what an import declaration without resolved target does to the run:
\* console.error and return (the throw is commented out)
unresolvedImport(acc, importName, fileName) ==
    [acc EXCEPT !.stderr = @ \cup {<<"Failed to resolve import", importName, fileName>>}]

\* addImport on the table of one importing module
addImport(table, importedModule, importedAs, originalName) ==
    [x \in DOMAIN table \cup {importedAs} |->
        IF x = importedAs THEN <<importedModule, originalName>> ELSE table[x]]

RECURSIVE addNamedImports(_, _, _, _)
addNamedImports(table, importedModule, elements, i) ==
    IF i > Len(elements) THEN table
    ELSE addNamedImports(
            addImport(table, importedModule, elements[i].name,
                      IF elements[i].propertyName = NULL THEN elements[i].name
                      ELSE elements[i].propertyName),
            importedModule, elements, i + 1)

\* the forEachChild callback of prepareImports over the children of one file:
\* acc is [status, table, touched, stderr], touched when addImport was called
RECURSIVE fileImports(_, _, _)
fileImports(file, i, acc) ==
    IF i > Len(file.statements) \/ acc.status # "ok" THEN acc
    ELSE LET node == file.statements[i] IN
         IF node.kind # "ImportDeclaration" THEN fileImports(file, i + 1, acc)
         ELSE IF ~node.hasClause \/ node.namedBindings.kind = "none"
         THEN fileImports(file, i + 1, acc)
         ELSE IF node.moduleSpecifier \notin getResolvedModules(file)
         THEN fileImports(file, i + 1, unresolvedImport(acc, node.moduleSpecifier, file.fileName))
         ELSE LET target == file.resolvedModules[node.moduleSpecifier] IN
              IF node.namedBindings.kind = "NamedImports"
              THEN fileImports(file, i + 1,
                      [acc EXCEPT !.touched = @ \/ Len(node.namedBindings.elements) > 0,
                                  !.table = addNamedImports(@, target,
                                                node.namedBindings.elements, 1)])
              ELSE fileImports(file, i + 1,
                      [acc EXCEPT !.touched = TRUE,
                                  !.table = addImport(@, target, node.namedBindings.name,
                                                      node.namedBindings.name)])

ImportsOfFile(path) ==
    fileImports(SourceFileAt(path), 1,
                [status |-> "ok", table |-> <<>>, touched |-> FALSE, stderr |-> {}])

\* prepareImports: [status, imports, stderr]
prepareImports(program) ==
    [status |-> IF \E p \in program : ImportsOfFile(p).status # "ok" THEN "throw" ELSE "ok",
     imports |-> [p \in {q \in program : ImportsOfFile(q).touched} |-> ImportsOfFile(p).table],
     stderr |-> UNION {ImportsOfFile(p).stderr : p \in program}]

-----------------------------------------------------------------------------
(* SpecFrontend: parseType and processRouterNode applied to the declarations of
   the source files above and to generated declarations, in a frontend built
   for the program of all four files. *)

SeqsUpTo(S, n) == UNION {[1..k -> S] : k \in 0..n}

Pending == [status |-> "pending"]
NoInput == [fn |-> "none"]

\* the state of a compile() run, for the specifications that run none
IdleRun ==
    /\ pc = "idle"
    /\ cmdOpts = [files |-> <<>>, outputFile |-> NULL, outputDirectory |-> NULL,
                  checkUnchanged |-> FALSE]
    /\ imports = <<>>
    /\ currentModule = NULL
    /\ currentSourceFile = NULL
    /\ fileIdx = 0
    /\ nodeIdx = 0
    /\ routers = <<>>
    /\ changed = FALSE
    /\ outIdx = 0
    /\ fs = <<>>
    /\ fs0 = <<>>
    /\ priorRuns = <<>>
    /\ processed = <<>>
    /\ thrown = NoError
    /\ stderr = {}
    /\ rendered = <<>>
    /\ exitCode = -1

\* new RoutesFrontend(program) for all files, then setCurrentModule(module, its file)
FrontendAt(module) == Frontend(Paths, prepareImports(Paths).imports, module, module)

RECURSIVE EntityOf(_)
EntityOf(segs) ==
    IF Len(segs) = 1 THEN Identifier(segs[1])
    ELSE QualifiedName(EntityOf(SubSeq(segs, 1, Len(segs) - 1)), segs[Len(segs)])

RefNames ==
    {"Base", "Extra", "Local", "Wrapped", "Callback", "Bad", "Broken", "Status", "Model",
     "Handlers", "Keys", "Self", "Child", "Orphan", "Gone", "ns", "Nowhere", "Box",
     "Maybe"}
RefSegs ==
    {<<n>> : n \in RefNames}
      \cup {<<"ns", "Base">>, <<"ns", "Wrapped">>, <<"ns", "Status">>, <<"Base", "id">>, <<"Base", "zzz">>, <<"Nowhere", "x">>,
            <<"Local", "x">>, <<"Base", "id", "x">>}

EnumInits ==
    {Literal("none", ""), NumericLiteral(<<5>>, <<>>), NumericLiteral(<<1>>, <<5>>),
     Literal("StringLiteral", "b"), Literal("PrefixUnaryExpression", "-1")}
GenEnum(inits) ==
    EnumDeclaration("E", [i \in 1..Len(inits) |-> EnumMember("M", inits[i])],
                    NoJsDoc)

GenProps ==
    {PropertySignature("Identifier", n, q, t, NoJsDoc) :
        n \in {"id", "tag"}, q \in BOOLEAN, t \in {BooleanKw, Ref("Local")}}
      \cup {MethodSignature("id")}
ParentLists ==
    {<<>>, <<"Base">>, <<"Extra">>, <<"Base", "Extra">>, <<"Extra", "Base">>,
     <<"Nowhere">>, <<"Local">>, <<"Self">>, <<"Box">>, <<"Maybe">>}
GenInterface(members, parents) ==
    InterfaceDeclaration("Gen", 0,
        IF parents = <<>> THEN <<>> ELSE <<[i \in 1..Len(parents) |-> Extends(parents[i])]>>,
        members, NoJsDoc)

KeyOfOperands ==
    {Ref("Base"), Ref("Extra"), Ref("Handlers"), Ref("Callback"), Ref("Local"), Ref("Nowhere")}

\* Types handed to performKeyOf directly
Obj(names) ==
    ObjectType([i \in 1..Len(names) |-> [name |-> names[i], type |-> BooleanAll(NullName, NullDoc)]],
               NullName, NullDoc)
\* what a function type translates to under keyof: the key set "all strings"
AllKeys == IntersectionType(<<>>, NullName, NullDoc)
KeyLeaves ==
    {Obj(<<"a", "b", "c">>), Obj(<<"b", "c", "d">>), Obj(<<>>), AllKeys,
     StringAll(NullName, NullDoc), ArrayType(Obj(<<"a">>), NullName, NullDoc)}
KeyInnerLeaves == {Obj(<<"a", "b", "c">>), Obj(<<"b", "c", "d">>), AllKeys, NullType(NullDoc)}
KeyInner ==
    KeyLeaves
      \cup {UnionType(ops, NullName, NullDoc) : ops \in SeqsUpTo(KeyInnerLeaves, MaxOperands)}
      \cup {IntersectionType(ops, NullName, NullDoc) : ops \in SeqsUpTo(KeyInnerLeaves, MaxOperands)}
KeyPairs == {<<x, y>> : x \in KeyInner, y \in KeyLeaves} \cup {<<y, x>> : x \in KeyInner, y \in KeyLeaves}
KeyTypes ==
    KeyInner
      \cup {UnionType(ops, NullName, NullDoc) : ops \in KeyPairs}
      \cup {IntersectionType(ops, NullName, NullDoc) : ops \in KeyPairs}

\* Generated marked declarations handed to processRouterNode
MarkedDoc == <<Doc(<<Text("Generated."), Space, Marker("#ExportRoute(\"/g\")", "/g")>>)>>
OneGet == TypeLiteralNode(<<Prop("GET", TypeLiteralNode(<<>>))>>)
GenRoutes ==
    {PropertySignature("StringLiteral", p, FALSE, t, NoJsDoc) :
        p \in {"/r", "/s"}, t \in {OneGet, TypeLiteralNode(<<>>), StringKw, MissingNode}}
      \cup {MethodSignature("/m"), IndexSignature}
GenRouters ==
    {InterfaceDeclaration("Gen", tp, <<>>, rs, MarkedDoc) :
        tp \in 0..1, rs \in SeqsUpTo(GenRoutes, MaxMembers)}
      \cup {TypeAliasDeclaration("Gen", tp, TypeLiteralNode(rs), MarkedDoc) :
                tp \in 0..1, rs \in SeqsUpTo(GenRoutes, MaxMembers)}
      \cup {TypeAliasDeclaration("Gen", tp, t, MarkedDoc) :
                tp \in 0..1, t \in {StringKw, Ref("ARoutes"), ArrayTypeNode(OneGet)}}
      \cup {[ClassDeclaration("Gen") EXCEPT !.jsDoc = MarkedDoc],
            EnumDeclaration("Gen", <<>>, MarkedDoc)}

\* a marked interface with the one route "/r" of the given type
RouteOf(type) ==
    InterfaceDeclaration("Gen", 0, <<>>,
        <<PropertySignature("StringLiteral", "/r", FALSE, type, NoJsDoc)>>, MarkedDoc)

\* members of a route: property signatures named by verbs and by other names,
\* with a type literal, another type or no type annotation, and a method signature
GenVerbs ==
    {PropertySignature("Identifier", v, FALSE, t, NoJsDoc) :
        v \in {"GET", "TRACE", "FETCH", "get"},
        t \in {TypeLiteralNode(<<>>), StringKw, MissingNode}}
      \cup {MethodSignature("FETCH")}

\* a marked interface with the one route "/r" and its one method GET of the
\* given members
MethodOf(members) == RouteOf(TypeLiteralNode(<<Prop("GET", TypeLiteralNode(members))>>))

\* members of a method: property signatures of recognized and other names, with
\* and without type annotation, and a method signature
GenFields ==
    {PropertySignature("Identifier", n, FALSE, t, NoJsDoc) :
        n \in MethodMemberNames \cup {"extra", "Body"}, t \in {StringKw, MissingNode}}
      \cup {MethodSignature("extra")}

\* members of a response literal: property signatures named by status codes and
\* by other strings, typed, typed undefined and untyped, and a method signature
GenResponses ==
    {PropertySignature("StringLiteral", n, FALSE, t, NoJsDoc) :
        n \in {"200", "404", "20x", "ok", "-1"}, t \in {StringKw, UndefinedKw, MissingNode}}
      \cup {MethodSignature("200")}

\* documentation comments: text, blanks, line ends, two well-formed markers, a
\* marker whose argument is no JSON string, and text that holds ")
GenChunks ==
    {Text("Routes."), Space, Newline,
     Marker("#ExportRoute(\"/g\")", "/g"), Marker("#ExportRoute(\"/h\")", "/h"),
     BadMarker("#ExportRoute(\"\\x\")"), Closer("(see \"x\")")}
GenJsDocs ==
    {<<Doc(chunks)>> : chunks \in SeqsUpTo(GenChunks, MaxChunks) \ {<<>>}}
      \cup {<<>>, <<NullDoc>>,
            <<NullDoc, Doc(<<Marker("#ExportRoute(\"/g\")", "/g")>>)>>,
            <<Doc(<<Text("Routes.")>>), Doc(<<Marker("#ExportRoute(\"/g\")", "/g")>>)>>}
\* a declaration with one route and the given documentation
Documented(jsDoc) ==
    InterfaceDeclaration("Gen", 0, <<>>,
        <<PropertySignature("StringLiteral", "/r", FALSE, OneGet, NoJsDoc)>>, jsDoc)

RouterInput(gen, node) ==
    [fn |-> "processRouterNode", gen |-> gen, module |-> "/a.ts", node |-> node,
     segs |-> <<>>, name |-> NullName, isKeyof |-> FALSE]

\* a failing type under up to MaxDepth enclosing type expressions; wrappers[1]
\* is the innermost
NestWrappers == {"array", "tuple", "union", "literal"}
NestLeaves ==
    {FunctionTypeNode, ParenthesizedTypeNode(StringKw), KeyOf(StringKw), Ref("Maybe"),
     Ref("Model")}
WrapIn(wrapper, node) ==
    CASE wrapper = "array" -> ArrayTypeNode(node)
      [] wrapper = "tuple" -> TupleTypeNode(<<NumberKw, node>>)
      [] wrapper = "union" -> UnionTypeNode(<<node, StringKw>>)
      [] wrapper = "literal" -> TypeLiteralNode(<<Prop("p", node)>>)
RECURSIVE Nested(_, _, _)
Nested(wrappers, leaf, k) ==
    IF k = 0 THEN leaf ELSE WrapIn(wrappers[k], Nested(wrappers, leaf, k - 1))
NestInput(wrappers, leaf) ==
    [fn |-> "parseType", gen |-> "nest", module |-> "/types.ts",
     node |-> Nested(wrappers, leaf, Len(wrappers)), segs |-> <<>>, name |-> NullName,
     isKeyof |-> FALSE, wrappers |-> wrappers, leaf |-> leaf]

ParseInput(gen, module, node, segs, name, isKeyof) ==
    [fn |-> "parseType", gen |-> gen, module |-> module, node |-> node,
     segs |-> segs, name |-> name, isKeyof |-> isKeyof]

FrontendInit ==
    /\ IdleRun
    /\ output = Pending
    /\ \/ \E m \in Paths, segs \in RefSegs, nm \in {NullName, <<"Given">>}, k \in BOOLEAN :
             input = ParseInput("ref", m, TypeReferenceNode(EntityOf(segs)), segs, nm, k)
       \/ \E inits \in SeqsUpTo(EnumInits, MaxEnumMembers) :
             input = ParseInput("enum", "/a.ts", GenEnum(inits), <<>>, NullName, FALSE)
       \/ \E m \in {"/a.ts", "/b.ts"}, ms \in SeqsUpTo(GenProps, MaxMembers),
             ps \in ParentLists, k \in BOOLEAN :
             input = ParseInput("interface", m, GenInterface(ms, ps), ps, NullName, k)
       \/ \E ms \in SeqsUpTo(GenProps, MaxMembers), k \in BOOLEAN :
             input = ParseInput("literal", "/a.ts", TypeLiteralNode(ms), <<>>, NullName, k)
       \/ \E m \in {"/a.ts", "/types.ts"}, ops \in SeqsUpTo(KeyOfOperands, MaxOperands),
             u \in BOOLEAN :
             input = ParseInput("keyof", m,
                            KeyOf(IF u THEN UnionTypeNode(ops) ELSE IntersectionTypeNode(ops)),
                            <<>>, NullName, FALSE)
       \/ \E wrappers \in SeqsUpTo(NestWrappers, MaxDepth), leaf \in NestLeaves :
             input = NestInput(wrappers, leaf)
       \/ \E t \in KeyTypes :
             input = [fn |-> "performKeyOf", gen |-> "type", module |-> "/a.ts", type |-> t]
       \/ \E m \in Paths, n \in RefNames :
             input = [fn |-> "lookupIdentifier", gen |-> "name", module |-> m,
                      identifier |-> n]
       \/ \E m \in Paths : \E i \in 1..Len(SourceFileAt(m).statements) :
             /\ getRouterBase(getDocumentation(SourceFileAt(m).statements[i])).base # NULL
             /\ input = [fn |-> "processRouterNode", gen |-> "marked", module |-> m,
                     node |-> SourceFileAt(m).statements[i], segs |-> <<>>,
                     name |-> NullName, isKeyof |-> FALSE]
       \/ \E node \in GenRouters : input = RouterInput("router", node)
       \/ \E jsDoc \in GenJsDocs :
             input = [RouterInput("docs", Documented(jsDoc)) EXCEPT !.fn = "scanNode"]
       \/ \E fields \in SeqsUpTo(GenFields, MaxMembers) :
             input = RouterInput("fields", MethodOf(fields))
       \/ \E rs \in SeqsUpTo(GenResponses, MaxMembers) :
             input = RouterInput("responses",
                                 MethodOf(<<Prop("response", TypeLiteralNode(rs))>>))
       \/ \E ms \in SeqsUpTo(GenVerbs, MaxMembers) :
             input = RouterInput("verbs", RouteOf(TypeLiteralNode(ms)))

ApplyParseType ==
    /\ input.fn = "parseType"
    /\ output = Pending
    /\ output' = parseType(FrontendAt(input.module), input.node, input.name, input.isKeyof)
    /\ UNCHANGED <<input, runVars>>

ApplyProcessRouterNode ==
    /\ input.fn = "processRouterNode"
    /\ output = Pending
    /\ \E doc \in {getRouterBase(getDocumentation(input.node))} :
          output' = processRouterNode(FrontendAt(input.module), doc.doc, doc.base,
                                      NullName, input.node)
    /\ UNCHANGED <<input, runVars>>

ApplyPerformKeyOf ==
    /\ input.fn = "performKeyOf"
    /\ output = Pending
    /\ output' = performKeyOf(input.type)
    /\ UNCHANGED <<input, runVars>>

ApplyScanNode ==
    /\ input.fn = "scanNode"
    /\ output = Pending
    /\ output' = scanNode(FrontendAt(input.module), input.node)
    /\ UNCHANGED <<input, runVars>>

\* lookupIdentifier in a frontend whose current module is the input's
ApplyLookupIdentifier ==
    /\ input.fn = "lookupIdentifier"
    /\ output = Pending
    /\ output' = [status |-> "ok",
                  val |-> lookupIdentifier(FrontendAt(input.module), input.identifier)]
    /\ UNCHANGED <<input, runVars>>

FrontendNext ==
    \/ ApplyParseType
    \/ ApplyProcessRouterNode
    \/ ApplyPerformKeyOf
    \/ ApplyScanNode
    \/ ApplyLookupIdentifier

SpecFrontend == FrontendInit /\ [][FrontendNext]_vars


-----------------------------------------------------------------------------
(* The rendered text (printer.ts), as the list of its heading and endpoint
   lines. *)

Line(tag, level, name, base, method, doc) ==
    [tag |-> tag, level |-> level, name |-> name, base |-> base,
     method |-> method, doc |-> doc]

RECURSIVE methodLines(_, _, _, _)
methodLines(route, methods, i, level) ==
    IF i > Len(methods) THEN <<>>
    ELSE <<Line("method", level, methods[i].name, route.route, methods[i].method,
                methods[i].documentation)>>
         \o methodLines(route, methods, i + 1, level)

\* router.routes.map(printMarkdownEndpoint(router.routeBase, level))
RECURSIVE endpointLines(_, _, _)
endpointLines(routes, i, level) ==
    IF i > Len(routes) THEN <<>>
    ELSE methodLines(routes[i], routes[i].methods, 1, level)
         \o endpointLines(routes, i + 1, level)

\* printMarkdown(router, printTOC)
printMarkdown(router, printTOC) ==
    <<Line("router", IF printTOC THEN 1 ELSE 2, router.name, router.routeBase, "",
           router.documentation)>>
    \o (IF printTOC THEN <<Line("toc", 0, NullName, "", "", NullDoc)>> ELSE <<>>)
    \o endpointLines(router.routes, 1, IF printTOC THEN 2 ELSE 3)

RECURSIVE routerLines(_, _)
routerLines(rs, i) ==
    IF i > Len(rs) THEN <<>> ELSE printMarkdown(rs[i], FALSE) \o routerLines(rs, i + 1)

\* printMarkdownFull(routers)
printMarkdownFull(rs) ==
    <<Line("title", 1, NullName, "", "", NullDoc), Line("toc", 0, NullName, "", "", NullDoc)>>
    \o routerLines(rs, 1)

-----------------------------------------------------------------------------
(* Spec: one run of main() and compile().  The command line names up to
   MaxFiles files: files of the program above, or a file that does not exist. *)

InputFiles == Paths \cup {"/nope.ts"}

\* opts.files after main() removed the duplicates
FileLists ==
    {fl \in SeqsUpTo(InputFiles, MaxFiles) :
        /\ Len(fl) > 0
        /\ \A i, j \in 1..Len(fl) : i # j => fl[i] # fl[j]}

\* the program of a command line: the files that exist and what they import
ProgramOfFiles(files) == ProgramOf({files[i] : i \in 1..Len(files)} \cap Paths)

\* path.join(cmdOpts.outputDirectory, router.name + ".md") and the --output
\* path, as lists of path segments
routerFileName(outputDirectory, router) == <<outputDirectory>> \o router.name \o <<".md">>
outputFileName(outputFile) == <<outputFile>>

NoFiles == <<>>
\* an output file left by an earlier run of another version of the sources
StaleFiles == [f \in {outputFileName("out.md"), <<"docs", "BRoutes", ".md">>} |->
                 <<Line("title", 1, <<"Old">>, "", "", NullDoc)>>]

\* ts.sys.writeFile
writeFile(files, fileName, txt) ==
    [f \in DOMAIN files \cup {fileName} |-> IF f = fileName THEN txt ELSE files[f]]

\* a comparison made for every target, whatever the earlier ones gave
checkChangedEachTime(opts, wasChanged, files, fileName, txt) ==
    opts.checkUnchanged /\ (fileName \notin DOMAIN files \/ txt # files[fileName])

\* changed = !fileExists(fileName) || txt !== readFile(fileName), evaluated
\* only under checkUnchanged && !changed
checkChanged(opts, wasChanged, files, fileName, txt) ==
    IF opts.checkUnchanged /\ ~wasChanged
    THEN fileName \notin DOMAIN files \/ txt # files[fileName]
    ELSE wasChanged

Init ==
    /\ pc = "start"
    /\ \E files \in FileLists, outputFile \in {NULL, "out.md"},
          outputDirectory \in {NULL, "docs"}, checkUnchanged \in BOOLEAN :
          cmdOpts = [files |-> files, outputFile |-> outputFile,
                     outputDirectory |-> outputDirectory,
                     checkUnchanged |-> checkUnchanged]
    /\ fs0 \in {NoFiles, StaleFiles}
    /\ fs = fs0
    /\ priorRuns = <<>>
    /\ imports = <<>>
    /\ currentModule = NULL
    /\ currentSourceFile = NULL
    /\ fileIdx = 0
    /\ nodeIdx = 0
    /\ routers = <<>>
    /\ changed = FALSE
    /\ outIdx = 0
    /\ processed = <<>>
    /\ thrown = NoError
    /\ stderr = {}
    /\ rendered = <<>>
    /\ exitCode = -1
    /\ input = NoInput
    /\ output = Pending

\* where the run would go on if the callback caught the exception
caught == "scan"

\* where an exception that leaves compile() takes the run: nothing catches it
uncaught == "aborted"

\* ts.createProgram and new RoutesFrontend(program), whose constructor runs
\* prepareImports
Construct ==
    /\ pc = "start"
    /\ \E r \in {prepareImports(ProgramOfFiles(cmdOpts.files))} :
          /\ stderr' = stderr \cup r.stderr
          /\ IF r.status = "ok"
             THEN /\ imports' = r.imports
                  /\ pc' = "scan"
                  /\ fileIdx' = 1
                  /\ UNCHANGED <<thrown, exitCode>>
             ELSE /\ pc' = uncaught
                  /\ thrown' = Error("Failed to resolve import")
                  /\ exitCode' = 1
                  /\ UNCHANGED <<imports, fileIdx>>
    /\ UNCHANGED <<cmdOpts, currentModule, currentSourceFile, nodeIdx, routers, changed,
                   outIdx, fs, fs0, priorRuns, processed, rendered, input, output>>

\* the head of the loop over cmdOpts.files: a file without source file is
\* skipped, else setCurrentModule and the first child
EnterFile ==
    /\ pc = "scan"
    /\ nodeIdx = 0
    /\ fileIdx <= Len(cmdOpts.files)
    /\ IF cmdOpts.files[fileIdx] \in ProgramOfFiles(cmdOpts.files)
       THEN /\ currentModule' = cmdOpts.files[fileIdx]
            /\ currentSourceFile' = cmdOpts.files[fileIdx]
            /\ nodeIdx' = 1
            /\ UNCHANGED fileIdx
       ELSE /\ fileIdx' = fileIdx + 1
            /\ UNCHANGED <<currentModule, currentSourceFile, nodeIdx>>
    /\ UNCHANGED <<pc, cmdOpts, imports, routers, changed, outIdx, fs, fs0, priorRuns, processed,
                   thrown, stderr, rendered, exitCode, input, output>>

\* the frontend object of the run
frontend == Frontend(ProgramOfFiles(cmdOpts.files), imports, currentModule, currentSourceFile)

\* the forEachChild callback on one child of the file: a child without marker
\* returns at once, a marked one goes through processRouterNode
VisitNode ==
    /\ pc = "scan"
    /\ nodeIdx > 0
    /\ nodeIdx <= Len(SourceFileAt(cmdOpts.files[fileIdx]).statements)
    /\ \E node \in {SourceFileAt(cmdOpts.files[fileIdx]).statements[nodeIdx]} :
       \E doc \in {getRouterBase(getDocumentation(node))} :
          IF doc.base = NULL
          THEN /\ nodeIdx' = nodeIdx + 1
               /\ UNCHANGED <<pc, currentModule, currentSourceFile, routers, processed,
                              thrown, exitCode>>
          ELSE \E r \in {processRouterNode(frontend, doc.doc, doc.base, NullName, node)} :
                  /\ processed' = Append(processed, <<cmdOpts.files[fileIdx], nodeIdx>>)
                  /\ currentModule' = r.fe.currentModule
                  /\ currentSourceFile' = r.fe.currentSourceFile
                  /\ IF r.status = "ok"
                     THEN /\ routers' = IF r.val.isNull THEN routers
                                        ELSE Append(routers, r.val)
                          /\ nodeIdx' = nodeIdx + 1
                          /\ UNCHANGED <<pc, thrown, exitCode>>
                     ELSE /\ pc' = uncaught
                          /\ thrown' = r.err
                          /\ exitCode' = 1
                          /\ UNCHANGED <<routers, nodeIdx>>
    /\ UNCHANGED <<cmdOpts, imports, fileIdx, changed, outIdx, fs, fs0, priorRuns, stderr,
                   rendered, input, output>>

\* forEachChild is through: the next file
EndFile ==
    /\ pc = "scan"
    /\ nodeIdx > 0
    /\ nodeIdx > Len(SourceFileAt(cmdOpts.files[fileIdx]).statements)
    /\ fileIdx' = fileIdx + 1
    /\ nodeIdx' = 0
    /\ UNCHANGED <<pc, cmdOpts, imports, currentModule, currentSourceFile, routers,
                   changed, outIdx, fs, fs0, priorRuns, processed, thrown, stderr, rendered,
                   exitCode, input, output>>

\* if (cmdOpts.outputFile !== null) { ... }
WriteOutputFile ==
    /\ pc = "scan"
    /\ nodeIdx = 0
    /\ fileIdx > Len(cmdOpts.files)
    /\ IF cmdOpts.outputFile # NULL
       THEN \E txt \in {printMarkdownFull(routers)} :
               /\ rendered' = rendered \o routers
               /\ changed' = checkChanged(cmdOpts, changed, fs,
                                          outputFileName(cmdOpts.outputFile), txt)
               /\ fs' = writeFile(fs, outputFileName(cmdOpts.outputFile), txt)
       ELSE UNCHANGED <<rendered, changed, fs>>
    /\ pc' = "outdir"
    /\ outIdx' = 1
    /\ UNCHANGED <<cmdOpts, imports, currentModule, currentSourceFile, fileIdx, nodeIdx,
                   routers, fs0, priorRuns, processed, thrown, stderr, exitCode, input, output>>

\* one turn of the loop over routers under cmdOpts.outputDirectory !== null
WriteRouterFile ==
    /\ pc = "outdir"
    /\ cmdOpts.outputDirectory # NULL
    /\ outIdx <= Len(routers)
    /\ \E txt \in {printMarkdown(routers[outIdx], TRUE)} :
          /\ rendered' = Append(rendered, routers[outIdx])
          /\ changed' = checkChanged(cmdOpts, changed, fs,
                            routerFileName(cmdOpts.outputDirectory, routers[outIdx]), txt)
          /\ fs' = writeFile(fs, routerFileName(cmdOpts.outputDirectory, routers[outIdx]), txt)
    /\ outIdx' = outIdx + 1
    /\ UNCHANGED <<pc, cmdOpts, imports, currentModule, currentSourceFile, fileIdx,
                   nodeIdx, routers, fs0, priorRuns, processed, thrown, stderr, exitCode, input,
                   output>>

\* the end of compile(): process.exit(2) when checkUnchanged saw a change,
\* else process.exit(0)
Exit ==
    /\ pc = "outdir"
    /\ cmdOpts.outputDirectory = NULL \/ outIdx > Len(routers)
    /\ exitCode' = IF cmdOpts.checkUnchanged /\ changed THEN 2 ELSE 0
    /\ stderr' = IF cmdOpts.checkUnchanged /\ changed
                 THEN stderr \cup {<<"Detected file changes">>}
                 ELSE stderr
    /\ pc' = "exited"
    /\ UNCHANGED <<cmdOpts, imports, currentModule, currentSourceFile, fileIdx, nodeIdx,
                   routers, changed, outIdx, fs, fs0, priorRuns, processed, thrown, rendered,
                   input, output>>

Next == Construct \/ EnterFile \/ VisitNode \/ EndFile \/ WriteOutputFile
           \/ WriteRouterFile \/ Exit

Spec == Init /\ [][Next]_vars

\* the next invocation of the command on the files the run left: the same input
\* files, any output options, with --checkUnchanged
Rerun ==
    /\ pc = "exited"
    /\ Len(priorRuns) < MaxReruns
    /\ priorRuns' = Append(priorRuns, cmdOpts)
    /\ \E outputFile \in {NULL, "out.md"}, outputDirectory \in {NULL, "docs"} :
          cmdOpts' = [files |-> cmdOpts.files, outputFile |-> outputFile,
                      outputDirectory |-> outputDirectory, checkUnchanged |-> TRUE]
    /\ fs0' = fs
    /\ pc' = "start"
    /\ imports' = <<>>
    /\ currentModule' = NULL
    /\ currentSourceFile' = NULL
    /\ fileIdx' = 0
    /\ nodeIdx' = 0
    /\ routers' = <<>>
    /\ changed' = FALSE
    /\ outIdx' = 0
    /\ processed' = <<>>
    /\ thrown' = NoError
    /\ stderr' = {}
    /\ rendered' = <<>>
    /\ exitCode' = -1
    /\ UNCHANGED <<fs, input, output>>

RerunNext == Next \/ Rerun

\* SpecRerun: a run of the command and the runs that follow it
SpecRerun == Init /\ [][RerunNext]_vars

-----------------------------------------------------------------------------
(* Properties of SpecFrontend *)

\* the function fn was applied to an input of the generator gen
Applied(fn, gen) == input.fn = fn /\ input.gen = gen /\ output.status # "pending"

\* what the type name of the reference handed in resolves to
Resolved == lookupEntity(FrontendAt(input.module), input.node.typeName)

\* C1: every application of parseType and of processRouterNode leaves the current
\* module and the current source file as it found them, whether it returns or
\* throws; and a reference that resolves is translated as its target is
\* translated in the target's module.
ModuleContextRestored ==
    (input.fn \in {"parseType", "processRouterNode"} /\ output.status # "pending") =>
        /\ output.fe.currentModule = input.module
        /\ output.fe.currentSourceFile = input.module
        /\ (input.gen = "ref" /\ Resolved.status = "found") =>
              \E t \in {parseType(FrontendAt(Resolved.module), Resolved.node,
                                  IF input.name = NullName THEN input.segs ELSE input.name,
                                  input.isKeyof)} :
                 output.status = t.status /\ output.val = t.val

\* a reference into another module whose nested translation threw
ThrownInsideOtherModule ==
    /\ Applied("parseType", "ref")
    /\ output.status = "throw"
    /\ Resolved.status = "found"
    /\ Resolved.module # input.module

\* the members an interface declares itself, translated as a type literal
OwnMembers ==
    parseType(FrontendAt(input.module), TypeLiteralNode(input.node.members), NullName,
              input.isKeyof).val.objectMembers

\* the members of the parents of a generated interface (input.segs names them)
InheritedMembers(i) ==
    parseType(FrontendAt(input.module), Extends(input.segs[i]), NullName,
              input.isKeyof).val.objectMembers

InheritedNames ==
    UNION {Range(MemberNames(InheritedMembers(i))) : i \in 1..Len(input.segs)}

\* C3: in the Object of an interface with extends clauses, a member name that
\* the interface and a parent both declare has the Type of the interface's own
\* declaration.
ChildMemberWins ==
    (Applied("parseType", "interface") /\ output.status = "ok") =>
        \A n \in Range(MemberNames(OwnMembers)) \cap InheritedNames :
            MemberType(output.val.objectMembers, n) = MemberType(OwnMembers, n)

\* an interface translated with a member its parent declares with another Type
ParentMemberWon ==
    /\ Applied("parseType", "interface")
    /\ output.status = "ok"
    /\ \E n \in Range(MemberNames(OwnMembers)) \cap InheritedNames :
          MemberType(output.val.objectMembers, n) # MemberType(OwnMembers, n)

\* C4: a type reference whose name does not resolve translates to an Object
\* without members, named by the dotted name of the reference, and the current
\* module is as before.
UnresolvedReferenceIsOpaque ==
    (Applied("parseType", "ref") /\ Resolved.status = "null") =>
        /\ output.status = "ok"
        /\ output.val.kind = "Object"
        /\ output.val.objectMembers = <<>>
        /\ output.val.name = input.segs
        /\ output.fe.currentModule = input.module

\* an unresolved dotted reference was translated
UnresolvedDottedReference ==
    /\ Applied("parseType", "ref")
    /\ Resolved.status = "null"
    /\ Len(input.segs) > 1
    /\ output.status = "ok"

\* the members of the generated interface translate without failure
OwnMembersTranslate ==
    parseType(FrontendAt(input.module), TypeLiteralNode(input.node.members), NullName,
              input.isKeyof).status = "ok"

\* a parent of the generated interface that does not resolve
MissedParent(i) ==
    lookupIdentifier(FrontendAt(input.module), input.segs[i]).status = "null"

\* C5: translating an interface whose extends clause names a parent that does
\* not resolve completes without failure.
UnresolvedParentIsNoError ==
    (/\ Applied("parseType", "interface")
     /\ Len(input.segs) > 0
     /\ \A i \in 1..Len(input.segs) : MissedParent(i)
     /\ OwnMembersTranslate)
        => output.status = "ok"

\* an interface whose only fault is a parent that does not resolve has thrown
UnresolvedParentThrew ==
    /\ Applied("parseType", "interface")
    /\ Len(input.segs) > 0
    /\ \A i \in 1..Len(input.segs) : MissedParent(i)
    /\ OwnMembersTranslate
    /\ output.status = "throw"
    /\ output.err.description = "Unhandled type"

\* the reference operator of keyof: [all, names]
RECURSIVE KeySet(_)
KeySet(type) ==
    IF type.kind = "Object"
    THEN [all |-> FALSE, names |-> Range(MemberNames(type.objectMembers))]
    ELSE IF type.kind = "Intersection"
    THEN [all |-> \A i \in 1..Len(type.sub) : KeySet(type.sub[i]).all,
          names |-> {n \in UNION {KeySet(type.sub[i]).names : i \in 1..Len(type.sub)} :
                        \A i \in 1..Len(type.sub) :
                            KeySet(type.sub[i]).all \/ n \in KeySet(type.sub[i]).names}]
    ELSE [all |-> \E i \in 1..Len(type.sub) : KeySet(type.sub[i]).all,
          names |-> IF \E i \in 1..Len(type.sub) : KeySet(type.sub[i]).all THEN {}
                    ELSE UNION {KeySet(type.sub[i]).names : i \in 1..Len(type.sub)}]

\* a Type built from Objects, Unions and Intersections only
RECURSIVE OnlyObjects(_)
OnlyObjects(type) ==
    \/ type.kind = "Object"
    \/ /\ type.kind \in {"Union", "Intersection"}
       /\ \A i \in 1..Len(type.sub) : OnlyObjects(type.sub[i])

\* C7: on a Type built from Objects, Unions and Intersections performKeyOf
\* returns the key set of the reference operator, every name once.
KeyOfIsReference ==
    (Applied("performKeyOf", "type") /\ OnlyObjects(input.type)) =>
        /\ output.status = "ok"
        /\ output.val.kind = "String"
        /\ output.val.all = KeySet(input.type).all
        /\ ~output.val.all =>
              /\ Range(output.val.strings) = KeySet(input.type).names
              /\ Len(output.val.strings) = Cardinality(KeySet(input.type).names)

\* the example of the specification, and a union with an "all strings" operand
KeyOfExamples ==
    /\ Applied("performKeyOf", "type")
    /\ \/ /\ input.type = IntersectionType(<<Obj(<<"a", "b", "c">>), Obj(<<"b", "c", "d">>)>>,
                                           NullName, NullDoc)
          /\ output.val.strings = <<"b", "c">>
       \/ /\ input.type = UnionType(<<Obj(<<"a", "b", "c">>), AllKeys>>, NullName, NullDoc)
          /\ output.val.all

\* the Type that the operand of a generated keyof translates to
KeyOfOperand ==
    parseType(FrontendAt(input.module), input.node.type, NullName, TRUE)

\* C8: performKeyOf throws on every Type with a part, at any depth of its unions
\* and intersections, that is no Object, Union or Intersection; and translating
\* keyof of an operand with such a part throws.
KeyOfRejectsOthers ==
    /\ (Applied("performKeyOf", "type") /\ ~OnlyObjects(input.type)) =>
            output.status = "throw"
    /\ (Applied("parseType", "keyof") /\ KeyOfOperand.status = "ok"
            /\ ~OnlyObjects(KeyOfOperand.val)) =>
            output.status = "throw"

\* keyof threw for a part two levels down, and for a translated operand
KeyOfThrewAtDepth ==
    /\ Applied("performKeyOf", "type")
    /\ output.status = "throw"
    /\ input.type.kind \in {"Union", "Intersection"}
    /\ \E i \in 1..Len(input.type.sub) :
          /\ input.type.sub[i].kind \in {"Union", "Intersection"}
          /\ ~OnlyObjects(input.type.sub[i])
          /\ \A j \in 1..Len(input.type.sub) : j # i => OnlyObjects(input.type.sub[j])

\* the property signatures of the generated declaration whose entry is in the
\* Object: the last of its name, and for an interface not a name of a parent
KeptSignatures ==
    {i \in 1..Len(input.node.members) :
        /\ input.node.members[i].kind = "PropertySignature"
        /\ \A j \in (i + 1)..Len(input.node.members) :
              input.node.members[j].kind = "PropertySignature" =>
                 input.node.members[j].name.text # input.node.members[i].name.text
        /\ input.gen = "interface" => input.node.members[i].name.text \notin InheritedNames}

\* C9: an optional property is translated to the Union of its translated type
\* and Undefined, in this order; a property that is not optional to its
\* translated type.
OptionalIsUnionWithUndefined ==
    (input.fn = "parseType" /\ input.gen \in {"literal", "interface"}
        /\ output.status = "ok") =>
        \A i \in KeptSignatures :
            \E t \in {parseType(FrontendAt(input.module), input.node.members[i].type,
                                NullName, input.isKeyof)} :
               MemberType(output.val.objectMembers, input.node.members[i].name.text)
                 = IF input.node.members[i].questionToken
                   THEN UnionType(<<t.val, UndefinedType(NoDocField)>>, NullName, NullDoc)
                   ELSE t.val

\* a type literal with an optional and a required property was translated
OptionalAndRequiredTranslated ==
    /\ Applied("parseType", "literal")
    /\ output.status = "ok"
    /\ \E i, j \in KeptSignatures :
          /\ input.node.members[i].questionToken
          /\ ~input.node.members[j].questionToken

\* the literal an enum member stands for: its initializer's value, or its
\* zero-based position
EnumLiteral(member, position) ==
    IF member.initializer.kind = "none" THEN [numbers |-> <<Number(position, 1)>>, strings |-> <<>>]
    ELSE IF member.initializer.kind = "NumericLiteral"
    THEN [numbers |-> <<NumberOfText(member.initializer.num)>>, strings |-> <<>>]
    ELSE [numbers |-> <<>>, strings |-> <<member.initializer.text>>]

\* the generated enum has initializers of the literal kinds only
LiteralInitializers ==
    \A i \in 1..Len(input.node.members) :
        input.node.members[i].initializer.kind \in {"none", "NumericLiteral", "StringLiteral"}

\* C10: an enum translates to a Union with one operand per member, in order,
\* each the single literal of its member: the initializer's value or the
\* zero-based position.
EnumIsUnionOfLiterals ==
    (Applied("parseType", "enum") /\ LiteralInitializers) =>
        /\ output.status = "ok"
        /\ output.val.kind = "Union"
        /\ Len(output.val.sub) = Len(input.node.members)
        /\ \A i \in 1..Len(input.node.members) :
              /\ output.val.sub[i].numbers = EnumLiteral(input.node.members[i], i - 1).numbers
              /\ output.val.sub[i].strings = EnumLiteral(input.node.members[i], i - 1).strings

\* an enum member with a fraction as initializer got another number
EnumFractionTruncated ==
    /\ Applied("parseType", "enum")
    /\ LiteralInitializers
    /\ output.status = "ok"
    /\ \E i \in 1..Len(input.node.members) :
          /\ input.node.members[i].initializer.kind = "NumericLiteral"
          /\ output.val.sub[i].numbers # <<NumberOfText(input.node.members[i].initializer.num)>>

-----------------------------------------------------------------------------
(* Properties of Spec *)

\* C2: once a failure is raised the run is aborted: nothing was rendered or
\* written, and from then on no declaration is processed, no router rendered
\* and no file written.
FailureAbortsRun ==
    /\ [](thrown # NoError =>
            /\ pc = "aborted"
            /\ exitCode = 1
            /\ rendered = <<>>
            /\ fs = fs0)
    /\ [][thrown # NoError =>
            UNCHANGED <<processed, routers, rendered, fs, fileIdx, nodeIdx, pc>>]_vars

\* a run aborted with a router built, files to come and both outputs asked for
AbortedWithRouterBuilt ==
    /\ pc = "aborted"
    /\ thrown # NoError
    /\ Len(routers) > 0
    /\ fileIdx < Len(cmdOpts.files)
    /\ cmdOpts.outputFile # NULL
    /\ cmdOpts.outputDirectory # NULL
    /\ fs0 = StaleFiles

\* the import declarations with bindings of a file whose module has no
\* resolved target
UnresolvedImportsOf(path) ==
    {i \in 1..Len(SourceFileAt(path).statements) :
        /\ SourceFileAt(path).statements[i].kind = "ImportDeclaration"
        /\ SourceFileAt(path).statements[i].hasClause
        /\ SourceFileAt(path).statements[i].namedBindings.kind # "none"
        /\ SourceFileAt(path).statements[i].moduleSpecifier
              \notin getResolvedModules(SourceFileAt(path))}

\* the program of the run has such an import declaration
HasUnresolvedImport ==
    \E p \in ProgramOfFiles(cmdOpts.files) : UnresolvedImportsOf(p) # {}

\* the names an import declaration binds
BoundNames(node) ==
    IF node.namedBindings.kind = "NamedImports"
    THEN {node.namedBindings.elements[k].name : k \in 1..Len(node.namedBindings.elements)}
    ELSE {node.namedBindings.name}

\* C6, as stated: with such an import declaration the run is aborted before a
\* declaration is scanned and before output is produced.
UnresolvedImportAborts ==
    (pc # "start" /\ HasUnresolvedImport) =>
        /\ pc = "aborted"
        /\ processed = <<>>
        /\ fs = fs0

\* C6, amended: such an import declaration is reported on stderr and binds
\* nothing in the import table, and the run is not aborted by it: it goes on
\* to scan the files.
UnresolvedImportIsSkipped ==
    pc # "start" =>
        /\ \A p \in ProgramOfFiles(cmdOpts.files) : \A i \in UnresolvedImportsOf(p) :
              /\ <<"Failed to resolve import",
                   SourceFileAt(p).statements[i].moduleSpecifier, p>> \in stderr
              /\ \A n \in BoundNames(SourceFileAt(p).statements[i]) :
                    p \in DOMAIN imports => n \notin DOMAIN imports[p]
        /\ (HasUnresolvedImport /\ pc = "aborted") => processed # <<>>

\* a run with such an import declaration went through and wrote its files
CompletedDespiteUnresolvedImport ==
    /\ pc = "exited"
    /\ HasUnresolvedImport
    /\ Len(routers) > 0
    /\ fs # fs0
    /\ exitCode = 0

-----------------------------------------------------------------------------
(* Properties of the route model builder *)

\* the declaration declares at least one type parameter
DeclaredGeneric(node) ==
    node.kind \in {"InterfaceDeclaration", "TypeAliasDeclaration"} /\ node.typeParameters > 0

\* the parents of the generated interface that resolve to a generic declaration
GenericParents ==
    {i \in 1..Len(input.segs) :
        \E r \in {lookupIdentifier(FrontendAt(input.module), input.segs[i])} :
            r.status = "found" /\ DeclaredGeneric(r.node)}

\* the application reaches a declaration with type parameters: as the marked
\* declaration, as the target of a reference, or as the target of an extends entry
GenericReached ==
    \/ input.fn = "processRouterNode" /\ DeclaredGeneric(input.node)
    \/ input.fn = "parseType" /\ input.gen = "ref"
          /\ Resolved.status = "found" /\ DeclaredGeneric(Resolved.node)
    \/ input.fn = "parseType" /\ input.gen = "interface" /\ GenericParents # {}

\* C11: an application that reaches a type alias or interface declaration with
\* at least one type parameter ends in a hard failure.
GenericDeclarationFails ==
    (output.status # "pending" /\ GenericReached) => output.status = "throw"

\* a reference to a generic interface was translated without failure
GenericInterfaceTranslated ==
    /\ Applied("parseType", "ref")
    /\ Resolved.status = "found"
    /\ Resolved.node.kind = "InterfaceDeclaration"
    /\ Resolved.node.typeParameters > 0
    /\ output.status = "ok"
    /\ output.val.kind = "Object"

\* generic aliases and generic marked declarations do fail
GenericAliasFails ==
    (output.status # "pending" /\ GenericReached
       /\ ~(input.fn = "parseType" /\ input.gen = "ref"
              /\ Resolved.node.kind = "InterfaceDeclaration")
       /\ ~(input.fn = "parseType" /\ input.gen = "interface"
              /\ \E i \in GenericParents :
                    lookupIdentifier(FrontendAt(input.module), input.segs[i]).node.kind
                       = "InterfaceDeclaration"))
      => output.status = "throw"


\* the members of the method literal, route literal or response literal handed in
\* that are property signatures
PropertySignatures(members) ==
    {i \in 1..Len(members) : members[i].kind = "PropertySignature"}
\* those of them that carry a type annotation
TypedSignatures(members) ==
    {i \in PropertySignatures(members) : members[i].type.kind # "undefined"}

\* the members of the one route of the generated router
VerbMembers == input.node.members[1].type.members

\* the verbs of all methods of a router
MethodVerbs(router) ==
    UNION {{router.routes[i].methods[j].method : j \in 1..Len(router.routes[i].methods)} :
              i \in 1..Len(router.routes)}

\* C12 as stated: a property signature inside a Route whose name is none of the
\* eight verbs makes the application fail.
EveryNonVerbFails ==
    (/\ Applied("processRouterNode", "verbs")
     /\ \E i \in PropertySignatures(VerbMembers) : VerbMembers[i].name.text \notin HttpMethods)
      => output.status = "throw"

\* a signature without type annotation named by no verb was skipped
UntypedNonVerbSkipped ==
    /\ Applied("processRouterNode", "verbs")
    /\ \E i \in PropertySignatures(VerbMembers) :
          VerbMembers[i].name.text \notin HttpMethods /\ VerbMembers[i].type.kind = "undefined"
    /\ output.status = "ok"

\* C12: a property signature with a type annotation inside a Route whose name
\* is none of the eight verbs makes the application fail; a signature without
\* type annotation is skipped; every method of a built router has one of the
\* eight verbs, and the methods of the route are its typed signatures in order.
TypedNonVerbFails ==
    /\ (/\ Applied("processRouterNode", "verbs")
        /\ \E i \in TypedSignatures(VerbMembers) : VerbMembers[i].name.text \notin HttpMethods)
          => output.status = "throw"
    /\ (input.fn = "processRouterNode" /\ output.status = "ok" /\ ~output.val.isNull)
          => MethodVerbs(output.val) \subseteq HttpMethods
    /\ (Applied("processRouterNode", "verbs") /\ output.status = "ok")
          => /\ ~output.val.isNull
             /\ Len(output.val.routes[1].methods) = Cardinality(TypedSignatures(VerbMembers))
             /\ \A i \in TypedSignatures(VerbMembers) :
                   \E j \in 1..Len(output.val.routes[1].methods) :
                      /\ output.val.routes[1].methods[j].method = VerbMembers[i].name.text
                      /\ j = Cardinality({k \in TypedSignatures(VerbMembers) : k <= i})

\* a typed signature named FETCH made the application fail
TypedNonVerbThrew ==
    /\ Applied("processRouterNode", "verbs")
    /\ \E i \in TypedSignatures(VerbMembers) : VerbMembers[i].name.text = "FETCH"
    /\ output.status = "throw"
    /\ output.err.description = "Invalid HTTP method"


\* the members of the one method of the generated router
FieldMembers == input.node.members[1].type.members[1].type.members

\* C13 as stated: a property signature of a method literal whose name is none
\* of the six recognized names makes the application fail.
EveryUnknownFieldFails ==
    (/\ Applied("processRouterNode", "fields")
     /\ \E i \in PropertySignatures(FieldMembers) :
           FieldMembers[i].name.text \notin MethodMemberNames)
      => output.status = "throw"

\* a field of another name without type annotation was ignored
UntypedUnknownFieldIgnored ==
    /\ Applied("processRouterNode", "fields")
    /\ \E i \in PropertySignatures(FieldMembers) :
          FieldMembers[i].name.text = "extra" /\ FieldMembers[i].type.kind = "undefined"
    /\ output.status = "ok"

\* C13: a property signature of a method literal that carries a type annotation
\* and whose name is none of the six recognized names makes the application
\* fail; without such a member the application succeeds with one method.
TypedUnknownFieldFails ==
    Applied("processRouterNode", "fields") =>
        IF \E i \in TypedSignatures(FieldMembers) :
              FieldMembers[i].name.text \notin MethodMemberNames
        THEN output.status = "throw" /\ output.err.description = "Unknown method member"
        ELSE /\ output.status = "ok"
             /\ ~output.val.isNull
             /\ Len(output.val.routes[1].methods) = 1

\* a typed field named Body, which differs from body by case only, failed
TypedUnknownFieldThrew ==
    /\ Applied("processRouterNode", "fields")
    /\ \E i \in TypedSignatures(FieldMembers) : FieldMembers[i].name.text = "Body"
    /\ \A i \in TypedSignatures(FieldMembers) : FieldMembers[i].name.text # "extra"
    /\ output.status = "throw"


\* the members of the response literal of the generated method
ResponseMembers == FieldMembers[1].type.members

\* the responses of the one method of the router built
BuiltResponses == output.val.routes[1].methods[1].responses

\* the name is written with decimal digits only
AllDigits(name) ==
    Len(Chars(name)) > 0 /\ \A k \in 1..Len(Chars(name)) : Chars(name)[k] \in DigitChars

\* C14: a type-annotated member of the response literal whose name is no
\* non-negative integer makes the application fail; the responses built have
\* non-negative status codes and are as many as the type-annotated members.
ResponseNameOrFailure ==
    Applied("processRouterNode", "responses") =>
        /\ (\E i \in TypedSignatures(ResponseMembers) :
                ~AllDigits(ResponseMembers[i].name.text))
              => output.status = "throw"
        /\ output.status = "ok" =>
              /\ \A j \in 1..Len(BuiltResponses) : BuiltResponses[j].status >= 0
              /\ Len(BuiltResponses) = Cardinality(TypedSignatures(ResponseMembers))

\* a type-annotated response member named ok was passed over and the method
\* built without it
ResponseNameSkipped ==
    /\ Applied("processRouterNode", "responses")
    /\ Len(ResponseMembers) = 1
    /\ ResponseMembers[1].kind = "PropertySignature"
    /\ ResponseMembers[1].name.text = "ok"
    /\ ResponseMembers[1].type.kind = "StringKeyword"
    /\ output.status = "ok"
    /\ BuiltResponses = <<>>

\* with names written in digits only, the responses are the type-annotated
\* members in order, with the value of the name as status code
DigitNamesAreResponses ==
    (/\ Applied("processRouterNode", "responses")
     /\ \A i \in TypedSignatures(ResponseMembers) : AllDigits(ResponseMembers[i].name.text))
      => /\ output.status = "ok"
         /\ Len(BuiltResponses) = Cardinality(TypedSignatures(ResponseMembers))
         /\ \A j \in 1..Len(BuiltResponses) : BuiltResponses[j].status \in {200, 404}


\* the members scanned for routes: those of the marked interface, or of the
\* type literal the marked alias stands for; none for any other declaration
RouterMembers(node) ==
    IF node.kind = "InterfaceDeclaration" THEN node.members
    ELSE IF node.kind = "TypeAliasDeclaration" /\ node.type.kind = "TypeLiteral"
    THEN node.type.members
    ELSE <<>>

\* C15: a router is built only from a route scan that yields at least one
\* route: a marked declaration without property-signature members, or of
\* another kind, gives no router, and every router built has a route for each
\* type-annotated property signature, hence a non-empty route list.
RouterOnlyWithRoutes ==
    (input.fn = "processRouterNode" /\ output.status = "ok") =>
        /\ ~output.val.isNull => Len(output.val.routes) > 0
        /\ input.gen \in {"router", "marked"} =>
              /\ PropertySignatures(RouterMembers(input.node)) = {} => output.val.isNull
              /\ output.val.isNull <=> TypedSignatures(RouterMembers(input.node)) = {}
              /\ Len(output.val.routes) = Cardinality(TypedSignatures(RouterMembers(input.node)))

\* a marked interface with members, none of them a property signature, gave
\* no router
NoRouterForEmptyScan ==
    /\ Applied("processRouterNode", "router")
    /\ input.node.kind = "InterfaceDeclaration"
    /\ Len(input.node.members) > 0
    /\ PropertySignatures(input.node.members) = {}
    /\ output.status = "ok"
    /\ output.val.isNull


\* the documentation text of the declaration scanned, <<>> when it has none
DocText ==
    IF getDocumentation(input.node).state = "text" THEN getDocumentation(input.node).text
    ELSE <<>>

\* the places of the well-formed markers in the documentation
ValidMarkers == {i \in 1..Len(DocText) : DocText[i].marker = "string"}

\* the documentation without its first well-formed marker
WithoutFirstMarker ==
    Only({Doc(trim(SubSeq(DocText, 1, i - 1) \o SubSeq(DocText, i + 1, Len(DocText))))
          : i \in {CHOOSE i \in ValidMarkers : \A j \in ValidMarkers : i <= j}})

\* what the claim says of a scanned declaration with one route
MarkerDecides ==
    IF ValidMarkers # {}
    THEN /\ output.base = DocText[CHOOSE i \in ValidMarkers : \A j \in ValidMarkers : i <= j].arg
         /\ output.status = "ok"
         /\ ~output.val.isNull
         /\ output.val.routeBase = output.base
         /\ output.doc = WithoutFirstMarker
         /\ output.val.documentation = WithoutFirstMarker
    ELSE /\ output.base = NULL
         /\ output.status = "ok"
         /\ output.val.isNull
         /\ output.doc = getDocumentation(input.node)

\* C16: a declaration yields a router base and a router exactly when its
\* documentation holds a well-formed marker, which is then removed from the
\* documentation kept; otherwise no router is produced and the documentation
\* is left as it was.
MarkerIffBase == Applied("scanNode", "docs") => MarkerDecides

\* a well-formed marker followed on its line by text that holds ") gave no base
ValidMarkerMissed ==
    /\ Applied("scanNode", "docs")
    /\ Len(DocText) = 3
    /\ DocText[1].marker = "string"
    /\ DocText[2] = Space
    /\ DocText[3].marker = "closer"
    /\ output.base = NULL
    /\ output.val.isNull

\* the first marker is alone on its line: no other marker and no ") after it
FirstMarkerEndsLine ==
    \A i \in 1..Len(DocText) :
        (/\ DocText[i].marker \in {"string", "invalid"}
         /\ \A j \in 1..(i - 1) : DocText[j].marker \notin {"string", "invalid"})
          => /\ DocText[i].marker = "string"
             /\ \A k \in (i + 1)..Len(DocText) :
                   DocText[k].marker # "none" => \E j \in i..k : DocText[j] = Newline

\* when the first marker-like piece is a well-formed marker that ends its
\* line, or there is none, the claim holds
LoneMarkerIffBase ==
    (Applied("scanNode", "docs") /\ FirstMarkerEndsLine) => MarkerDecides


-----------------------------------------------------------------------------
(* The text layout engine (TextBlock.ts).  A string is the sequence of its
   characters, "\n" the line feed; a block is [lines, indention]; an argument
   that may be a block or a string carries both shapes, isString telling which. *)

MaxBlocks == 2         \* blocks handed to hcat, vcat, hJoin, vJoin
MaxIndent == 2         \* amount handed to indent
MaxText == 3           \* characters of a string handed to the constructor

Spaces(n) == [i \in 1..n |-> " "]
MaxOf(S) == CHOOSE m \in S : \A x \in S : x <= m

\* a split that drops the empty segments
RECURSIVE splitNonEmpty(_, _, _)
splitNonEmpty(text, i, line) ==
    IF i > Len(text) THEN (IF line = <<>> THEN <<>> ELSE <<line>>)
    ELSE IF text[i] = "\n"
    THEN (IF line = <<>> THEN <<>> ELSE <<line>>) \o splitNonEmpty(text, i + 1, <<>>)
    ELSE splitNonEmpty(text, i + 1, Append(line, text[i]))

\* text.split("\n")
RECURSIVE split(_, _, _)
split(text, i, line) ==
    IF i > Len(text) THEN <<line>>
    ELSE IF text[i] = "\n" THEN <<line>> \o split(text, i + 1, <<>>)
    ELSE split(text, i + 1, Append(line, text[i]))

\* lines.join("\n")
RECURSIVE join(_, _)
join(lines, i) ==
    IF i > Len(lines) THEN <<>>
    ELSE IF i = Len(lines) THEN lines[i]
    ELSE lines[i] \o <<"\n">> \o join(lines, i + 1)

\* new TextBlock(text, indention) for an array and for a string
TextBlockOfLines(lines, indention) ==
    [isString |-> FALSE, text |-> <<>>, lines |-> lines, indention |-> indention]
TextBlockOfString(text, indention) == TextBlockOfLines(split(text, 1, <<>>), indention)
\* a string where a block is expected
StringArg(text) == [isString |-> TRUE, text |-> text, lines |-> <<>>, indention |-> 0]

EMPTY == TextBlockOfLines(<<>>, 0)

asTextBlock(block) == IF block.isString THEN TextBlockOfString(block.text, 0) ELSE block

\* results: [status, val, err]
LayoutOk(block) == [status |-> "ok", val |-> block, err |-> ""]
LayoutThrow(message) == [status |-> "throw", val |-> EMPTY, err |-> message]

indent(this, amount) == TextBlockOfLines(this.lines, this.indention + amount)

width(this) ==
    MaxOf({0} \cup {Len(this.lines[i]) : i \in 1..Len(this.lines)}) + this.indention
height(this) == Len(this.lines)

\* the lines without their indentation
plainStrings(this) == this.lines
toIndentStrings(this) ==
    [i \in 1..Len(this.lines) |-> Spaces(this.indention) \o this.lines[i]]
toString(this) == join(toIndentStrings(this), 1)

\* the loop of toRectString: blanks are added while the line is shorter than w
padRight(line, w) == IF Len(line) < w THEN line \o Spaces(w - Len(line)) ELSE line
toRectString(this) ==
    [i \in 1..Len(this.lines) |-> padRight(Spaces(this.indention) \o this.lines[i], width(this))]


\* hcat, lines 75-77: the rectangles of this and of the blocks, the empty ones dropped
HasLines(block) == Len(block) > 0
fullBlocksOf(this, blocks) ==
    SelectSeq(<<toRectString(this)>>
                  \o [i \in 1..Len(blocks) |-> toRectString(asTextBlock(blocks[i]))],
              HasLines)
\* line 78
maxHeightOf(this, fullBlocks) ==
    MaxOf({height(this)} \cup {Len(fullBlocks[i]) : i \in 1..Len(fullBlocks)})
\* lines 79-83: push block[0].replace(/./g, " ") until the block has maxHeight lines
padBlock(block, maxHeight) ==
    block \o [i \in 1..(maxHeight - Len(block)) |-> Spaces(Len(block[1]))]
\* lines 84-87: reduce without an initial value, acc[index] += line
RECURSIVE reduceRows(_, _, _)
reduceRows(fullBlocks, i, acc) ==
    IF i > Len(fullBlocks) THEN acc
    ELSE reduceRows(fullBlocks, i + 1,
                    [k \in 1..Len(acc) |->
                        IF k <= Len(fullBlocks[i]) THEN acc[k] \o fullBlocks[i][k] ELSE acc[k]])
hcatRows(fullBlocks, maxHeight) ==
    IF Len(fullBlocks) = 0
    THEN LayoutThrow("TypeError: Reduce of empty array with no initial value")
    ELSE LayoutOk(TextBlockOfLines(
             reduceRows([i \in 1..Len(fullBlocks) |-> padBlock(fullBlocks[i], maxHeight)],
                        2, padBlock(fullBlocks[1], maxHeight)), 0))
hcat(this, blocks) ==
    IF Len(blocks) = 0 THEN LayoutOk(this)
    ELSE hcatRows(fullBlocksOf(this, blocks),
                  maxHeightOf(this, fullBlocksOf(this, blocks)))

\* [].concat(...newLines)
RECURSIVE concatAll(_, _)
concatAll(arrays, i) ==
    IF i > Len(arrays) THEN <<>> ELSE arrays[i] \o concatAll(arrays, i + 1)
vcat(this, blocks) ==
    IF Len(blocks) = 0 THEN LayoutOk(this)
    ELSE LayoutOk(TextBlockOfLines(
             toIndentStrings(this)
                 \o concatAll([i \in 1..Len(blocks) |-> toIndentStrings(asTextBlock(blocks[i]))], 1),
             0))

staticHcat(blocks) == hcat(EMPTY, blocks)
staticVcat(blocks) == vcat(EMPTY, blocks)

\* blockArray of hJoin and vJoin: the blocks with delimBlock between neighbours
blockArrayOf(blocks, delim) ==
    [i \in 1..(2 * Len(blocks) - 1) |->
        IF i % 2 = 1 THEN asTextBlock(blocks[(i + 1) \div 2]) ELSE asTextBlock(delim)]
hJoin(blocks, delim) ==
    IF Len(blocks) = 0 THEN LayoutOk(EMPTY) ELSE staticHcat(blockArrayOf(blocks, delim))
vJoin(blocks, delim) ==
    IF Len(blocks) = 0 THEN LayoutOk(EMPTY) ELSE staticVcat(blockArrayOf(blocks, delim))

(* The blocks and strings the layout functions are applied to: the empty
   block, an indented block without lines, rectangular and ragged blocks, a
   block of one empty line, and strings with and without a line feed. *)
LayoutBlocks ==
    { EMPTY,
      TextBlockOfLines(<<>>, 2),
      TextBlockOfLines(<< <<"A", "B">>, <<"C", "D">> >>, 0),
      TextBlockOfLines(<< <<"X">> >>, 0),
      TextBlockOfLines(<< <<"A">>, <<>> >>, 1),
      TextBlockOfLines(<< <<>> >>, 0),
      TextBlockOfLines(<< <<"A", "B", "C">>, <<"D">>, <<"E", "F">> >>, 2) }
LayoutStrings ==
    { StringArg(<<"X">>), StringArg(<<"A", "\n", "B", "C">>), StringArg(<<>>) }
LayoutArgs == LayoutBlocks \cup LayoutStrings
LayoutDelims == { StringArg(<<",">>), StringArg(<<>>), EMPTY }
TextChars == {"a", " ", "\n"}

LayoutInput(fn, this, blocks, delim, amount, text) ==
    [fn |-> fn, this |-> this, blocks |-> blocks, delim |-> delim,
     amount |-> amount, text |-> text]

LayoutInit ==
    /\ IdleRun
    /\ output = Pending
    /\ \/ \E this \in LayoutBlocks, blocks \in SeqsUpTo(LayoutArgs, MaxBlocks),
             fn \in {"hcat", "vcat"} :
             input = LayoutInput(fn, this, blocks, EMPTY, 0, <<>>)
       \/ \E blocks \in SeqsUpTo(LayoutArgs, MaxBlocks),
             fn \in {"TextBlock.hcat", "TextBlock.vcat"} :
             input = LayoutInput(fn, EMPTY, blocks, EMPTY, 0, <<>>)
       \/ \E blocks \in SeqsUpTo(LayoutArgs, MaxBlocks), delim \in LayoutDelims,
             fn \in {"hJoin", "vJoin"} :
             input = LayoutInput(fn, EMPTY, blocks, delim, 0, <<>>)
       \/ \E this \in LayoutBlocks, amount \in 0..MaxIndent :
             input = LayoutInput("indent", this, <<>>, EMPTY, amount, <<>>)
       \/ \E text \in SeqsUpTo(TextChars, MaxText) :
             input = LayoutInput("new", EMPTY, <<>>, EMPTY, 0, text)

ApplyHcat ==
    /\ input.fn = "hcat"
    /\ output = Pending
    /\ output' = hcat(input.this, input.blocks)
    /\ UNCHANGED <<input, runVars>>

ApplyVcat ==
    /\ input.fn = "vcat"
    /\ output = Pending
    /\ output' = vcat(input.this, input.blocks)
    /\ UNCHANGED <<input, runVars>>

ApplyStaticHcat ==
    /\ input.fn = "TextBlock.hcat"
    /\ output = Pending
    /\ output' = staticHcat(input.blocks)
    /\ UNCHANGED <<input, runVars>>

ApplyStaticVcat ==
    /\ input.fn = "TextBlock.vcat"
    /\ output = Pending
    /\ output' = staticVcat(input.blocks)
    /\ UNCHANGED <<input, runVars>>

ApplyHJoin ==
    /\ input.fn = "hJoin"
    /\ output = Pending
    /\ output' = hJoin(input.blocks, input.delim)
    /\ UNCHANGED <<input, runVars>>

ApplyVJoin ==
    /\ input.fn = "vJoin"
    /\ output = Pending
    /\ output' = vJoin(input.blocks, input.delim)
    /\ UNCHANGED <<input, runVars>>

ApplyIndent ==
    /\ input.fn = "indent"
    /\ output = Pending
    /\ output' = LayoutOk(indent(input.this, input.amount))
    /\ UNCHANGED <<input, runVars>>

ApplyNewTextBlock ==
    /\ input.fn = "new"
    /\ output = Pending
    /\ output' = LayoutOk(TextBlockOfString(input.text, 0))
    /\ UNCHANGED <<input, runVars>>

LayoutNext ==
    \/ ApplyHcat \/ ApplyVcat \/ ApplyStaticHcat \/ ApplyStaticVcat
    \/ ApplyHJoin \/ ApplyVJoin \/ ApplyIndent \/ ApplyNewTextBlock

SpecLayout == LayoutInit /\ [][LayoutNext]_vars


-----------------------------------------------------------------------------
(* Properties of the text layout engine (SpecLayout). *)

LayoutApplied(fns) == output # Pending /\ input.fn \in fns

\* the blocks b1..bk a concatenation is about: the receiver of the instance
\* form first, strings as the blocks the constructor makes of them
ConcatenatedBlocks ==
    IF input.fn \in {"hcat", "vcat"}
    THEN <<input.this>> \o [i \in 1..Len(input.blocks) |-> asTextBlock(input.blocks[i])]
    ELSE [i \in 1..Len(input.blocks) |-> asTextBlock(input.blocks[i])]
\* a concatenation with at least one argument, or the static form
Concatenates(instance, static) ==
    \/ LayoutApplied({instance}) /\ Len(input.blocks) > 0
    \/ LayoutApplied({static})

LineLengths(b) == {Len(b.lines[i]) : i \in 1..Len(b.lines)}
WidthOf(b) == b.indention + MaxOf({0} \cup LineLengths(b))
Heights(bs) == {Len(bs[j].lines) : j \in 1..Len(bs)}

\* row i of block b in a horizontal layout: its indented line padded to the
\* block's width, or width-many spaces below the block's last line
RowCell(b, i) ==
    IF i <= Len(b.lines)
    THEN Spaces(b.indention) \o b.lines[i]
             \o Spaces(WidthOf(b) - b.indention - Len(b.lines[i]))
    ELSE Spaces(WidthOf(b))
RECURSIVE RowOf(_, _, _)
RowOf(bs, j, i) == IF j > Len(bs) THEN <<>> ELSE RowCell(bs[j], i) \o RowOf(bs, j + 1, i)
HcatExpected(bs) == [i \in 1..MaxOf({0} \cup Heights(bs)) |-> RowOf(bs, 1, i)]

\* C17: hcat of b1..bk returns a block of indentation 0 whose height is the
\* maximum input height and whose row i is the concatenation, in order, of each
\* block's indented line i padded to the block's width, or of width-many
\* spaces where the block has fewer than i lines.
HcatLaysOutRows ==
    Concatenates("hcat", "TextBlock.hcat") =>
        /\ output.status = "ok"
        /\ output.val.indention = 0
        /\ Len(output.val.lines) = MaxOf({0} \cup Heights(ConcatenatedBlocks))
        /\ output.val.lines = HcatExpected(ConcatenatedBlocks)

\* hcat(["AB","CD"], EMPTY.indent(2)) is ["AB","CD"]: the block of width 2
\* without lines adds no column
HcatDropsIndentedEmpty ==
    /\ LayoutApplied({"hcat"})
    /\ input.this = TextBlockOfLines(<< <<"A", "B">>, <<"C", "D">> >>, 0)
    /\ input.blocks = << TextBlockOfLines(<<>>, 2) >>
    /\ output.status = "ok"
    /\ output.val.lines = << <<"A", "B">>, <<"C", "D">> >>
    /\ HcatExpected(ConcatenatedBlocks) = << <<"A", "B", " ", " ">>, <<"C", "D", " ", " ">> >>

\* the rows are as described when some block has lines and every block without
\* lines has width 0
HcatOfFilledBlocks ==
    /\ Concatenates("hcat", "TextBlock.hcat")
    /\ Heights(ConcatenatedBlocks) \notin {{}, {0}}
    /\ \A j \in 1..Len(ConcatenatedBlocks) :
           Len(ConcatenatedBlocks[j].lines) = 0 => ConcatenatedBlocks[j].indention = 0
    => /\ output.status = "ok"
       /\ output.val.indention = 0
       /\ output.val.lines = HcatExpected(ConcatenatedBlocks)

\* hcat(["AB","CD"], ["X"]) = ["ABX","CD "]
HcatExample ==
    /\ LayoutApplied({"hcat"})
    /\ input.this = TextBlockOfLines(<< <<"A", "B">>, <<"C", "D">> >>, 0)
    /\ input.blocks = << TextBlockOfLines(<< <<"X">> >>, 0) >>
    /\ output = LayoutOk(TextBlockOfLines(<< <<"A", "B", "X">>, <<"C", "D", " ">> >>, 0))

RECURSIVE SumOfHeights(_, _)
SumOfHeights(bs, j) ==
    IF j > Len(bs) THEN 0 ELSE Len(bs[j].lines) + SumOfHeights(bs, j + 1)
RECURSIVE VcatExpected(_, _)
VcatExpected(bs, j) ==
    IF j > Len(bs) THEN <<>>
    ELSE [i \in 1..Len(bs[j].lines) |-> Spaces(bs[j].indention) \o bs[j].lines[i]]
             \o VcatExpected(bs, j + 1)

\* C18: vcat of b1..bk returns the lines of b1, then of b2, ..., each prefixed
\* by its own block's indentation and not padded on the right; the height is
\* the sum of the input heights and the indentation is 0.
VcatStacksLines ==
    Concatenates("vcat", "TextBlock.vcat") =>
        /\ output.status = "ok"
        /\ output.val.indention = 0
        /\ Len(output.val.lines) = SumOfHeights(ConcatenatedBlocks, 1)
        /\ output.val.lines = VcatExpected(ConcatenatedBlocks, 1)

\* ["AB","CD"] over the block ["A",""] indented by 1: four lines, the last two
\* with one leading space and no padding
VcatOfIndentedRagged ==
    /\ LayoutApplied({"vcat"})
    /\ input.this = TextBlockOfLines(<< <<"A", "B">>, <<"C", "D">> >>, 0)
    /\ input.blocks = << TextBlockOfLines(<< <<"A">>, <<>> >>, 1) >>
    /\ output = LayoutOk(TextBlockOfLines(
                    << <<"A", "B">>, <<"C", "D">>, <<" ", "A">>, <<" ">> >>, 0))


LayoutFns ==
    {"hcat", "vcat", "TextBlock.hcat", "TextBlock.vcat", "hJoin", "vJoin", "indent"}

\* C19: indent, hcat, vcat, hJoin and vJoin return a block for every list of
\* well-formed blocks, the empty list and the lists of blocks without lines
\* included, and never raise an error; hcat and vcat without arguments return
\* the receiver, their static forms the empty block.
LayoutIsTotal ==
    LayoutApplied(LayoutFns) =>
        /\ output.status = "ok"
        /\ input.fn \in {"hcat", "vcat"} /\ Len(input.blocks) = 0 => output.val = input.this
        /\ input.fn \in {"TextBlock.hcat", "TextBlock.vcat"} /\ Len(input.blocks) = 0
               => output.val = EMPTY

\* TextBlock.hcat(TextBlock.EMPTY) throws
HcatOfEmptyBlocksThrows ==
    /\ LayoutApplied({"TextBlock.hcat"})
    /\ input.blocks = <<EMPTY>>
    /\ output.status = "throw"

\* hJoin([""], ",") is one empty line, hJoin([EMPTY], ",") throws
HJoinOfEmptyBlockThrows ==
    /\ LayoutApplied({"hJoin"})
    /\ input.blocks = <<EMPTY>>
    /\ output.status = "throw"

\* the only failure is a horizontal layout of one or more blocks none of which
\* has lines; without arguments the receiver, or the empty block, is returned
OnlyEmptyRowsThrow ==
    LayoutApplied(LayoutFns) =>
        /\ output.status = "throw" <=>
               /\ input.fn \in {"hcat", "TextBlock.hcat", "hJoin"}
               /\ Len(input.blocks) > 0
               /\ Len(input.this.lines) = 0
               /\ \A j \in 1..Len(input.blocks) : Len(asTextBlock(input.blocks[j]).lines) = 0
               /\ input.fn = "hJoin" /\ Len(input.blocks) > 1
                      => Len(asTextBlock(input.delim).lines) = 0
        /\ input.fn \in {"hcat", "vcat"} /\ Len(input.blocks) = 0 => output.val = input.this
        /\ input.fn \notin {"hcat", "vcat", "indent"} /\ Len(input.blocks) = 0
               => output.val = EMPTY

\* the number of segments between line feeds
Segments(text) == 1 + Cardinality({i \in 1..Len(text) : text[i] = "\n"})
\* the serialization of lines each prefixed by n spaces
RECURSIVE Serialized(_, _, _)
Serialized(lines, n, i) ==
    IF i > Len(lines) THEN <<>>
    ELSE Spaces(n) \o lines[i]
             \o (IF i < Len(lines) THEN <<"\n">> ELSE <<>>)
             \o Serialized(lines, n, i + 1)

\* C20: a block built from the string s with indentation 0 serializes to s and
\* its height is the number of segments of s between line feeds; indent(b, n)
\* has the lines and the height of b, the width of b plus n, and serializes
\* with every line, the empty ones included, prefixed by n more spaces; the
\* width of a block is its indentation plus the length of its longest line.
BlockRoundTrip ==
    /\ LayoutApplied({"new"}) =>
           /\ output.status = "ok"
           /\ output.val.indention = 0
           /\ toString(output.val) = input.text
           /\ height(output.val) = Segments(input.text)
           /\ width(output.val) = WidthOf(output.val)
    /\ LayoutApplied({"indent"}) =>
           /\ output.status = "ok"
           /\ output.val.lines = input.this.lines
           /\ height(output.val) = height(input.this)
           /\ width(input.this) = WidthOf(input.this)
           /\ width(output.val) = width(input.this) + input.amount
           /\ toString(input.this) = Serialized(input.this.lines, input.this.indention, 1)
           /\ toString(output.val) =
                  Serialized(toIndentStrings(input.this), input.amount, 1)

\* "a\n" is the block of the lines "a" and "", of height 2, and serializes to "a\n"
TextEndingInLineFeed ==
    /\ LayoutApplied({"new"})
    /\ input.text = <<"a", "\n">>
    /\ output.val.lines = << <<"a">>, <<>> >>
    /\ toString(output.val) = <<"a", "\n">>

\* the block ["A",""] of indentation 1 indented by 2: width 4, "   A\n   "
IndentedRagged ==
    /\ LayoutApplied({"indent"})
    /\ input.this = TextBlockOfLines(<< <<"A">>, <<>> >>, 1)
    /\ input.amount = 2
    /\ width(output.val) = 4
    /\ toString(output.val) = <<" ", " ", " ", "A", "\n", " ", " ", " ">>


-----------------------------------------------------------------------------
(* Properties of function types, error contexts and name resolution
   (SpecFrontend). *)

\* a reference, from /types.ts, to the alias Callback of a function type
FunctionReached ==
    /\ Applied("parseType", "ref")
    /\ input.module = "/types.ts"
    /\ input.segs = <<"Callback">>
\* keyof of the one operand Handlers, whose property run is a function
KeyOfHandlers ==
    /\ Applied("parseType", "keyof")
    /\ input.module = "/types.ts"
    /\ input.node.type.types = <<Ref("Handlers")>>

\* C24: a function type met in keyof mode translates to an Object with zero
\* members, keyof over an object type with function-typed properties yields the
\* names of all its property signatures, and outside keyof mode a function
\* type is a hard failure.
FunctionUnderKeyOfIsEmptyObject ==
    /\ FunctionReached /\ input.isKeyof =>
           /\ output.status = "ok"
           /\ output.val.kind = "Object"
           /\ output.val.objectMembers = <<>>
    /\ FunctionReached /\ ~input.isKeyof => output.status = "throw"
    /\ KeyOfHandlers =>
           output.status = "ok" /\ output.val.strings = <<"run", "label">>

\* in keyof mode the function type is the Intersection of no types
FunctionUnderKeyOfIsEmptyIntersection ==
    /\ FunctionReached
    /\ input.isKeyof
    /\ output.status = "ok"
    /\ output.val.kind = "Intersection"
    /\ output.val.sub = <<>>

\* what holds: the empty Intersection in keyof mode, the failure outside it, and
\* the names of all properties under keyof
FunctionDegradesUnderKeyOf ==
    /\ FunctionReached /\ input.isKeyof =>
           /\ output.status = "ok"
           /\ output.val.kind = "Intersection"
           /\ output.val.sub = <<>>
    /\ FunctionReached /\ ~input.isKeyof =>
           /\ output.status = "throw"
           /\ output.err.description = "Bad type for Web API"
    /\ KeyOfHandlers =>
           output.status = "ok" /\ output.val.strings = <<"run", "label">>


\* the declaration of a name in /types.ts
DeclaredInTypes(name) ==
    TypesTs.statements[CHOOSE i \in 1..Len(TypesTs.statements) :
                           TypesTs.statements[i].name = name]
\* the nodes whose translation is in progress when the generated leaf fails,
\* innermost first: the declaration a reference resolved to, then the leaf
LeafFrames(leaf) ==
    IF leaf.kind = "TypeReference"
    THEN <<DeclaredInTypes(leaf.typeName.text), leaf>>
    ELSE <<leaf>>
\* the node on which the failure is raised
FailingNode(leaf) == LeafFrames(leaf)[1]
FramesInProgress ==
    LeafFrames(input.leaf)
        \o [k \in 1..Len(input.wrappers) |-> Nested(input.wrappers, input.leaf, k)]
TextsOf(nodes) == [k \in 1..Len(nodes) |-> [printed |-> nodes[k]]]
\* the description the failure is raised with
RaisedDescription(leaf) ==
    CASE leaf.kind = "FunctionType" -> "Bad type for Web API"
      [] leaf.kind = "TypeOperator" -> "Failed to perform keyof"
      [] leaf = Ref("Maybe") -> "Type parameters not implemented"
      [] OTHER -> "Unhandled type"

\* C25: a failure raised inside nested type translation reaches the caller as
\* one error whose context chain holds the text of every node whose translation
\* was in progress, once per node, innermost first and outermost last, with the
\* description the failure was raised with.
ContextChainIsComplete ==
    Applied("parseType", "nest") =>
        /\ output.status = "throw"
        /\ output.err.in = TextsOf(FramesInProgress)
        /\ output.err.description = RaisedDescription(input.leaf)

\* (string)[]: the chain holds the array type only, the parenthesized type on
\* which Unhandled type is raised is named as the subject of the failure
UnhandledNodeNotInChain ==
    /\ Applied("parseType", "nest")
    /\ input.leaf = ParenthesizedTypeNode(StringKw)
    /\ input.wrappers = <<"array">>
    /\ output.status = "throw"
    /\ output.err.description = "Unhandled type"
    /\ output.err.failureOn = TextsOf(<<input.leaf>>)
    /\ output.err.in = TextsOf(<<ArrayTypeNode(input.leaf)>>)

\* what holds: the chain is complete but for the node on which Unhandled type
\* is raised
ContextChainButUnhandled ==
    Applied("parseType", "nest") =>
        /\ output.status = "throw"
        /\ output.err.description = RaisedDescription(input.leaf)
        /\ output.err.in =
               IF RaisedDescription(input.leaf) = "Unhandled type"
               THEN Tail(TextsOf(FramesInProgress))
               ELSE TextsOf(FramesInProgress)

\* a failure two type expressions deep behind a reference: five texts
DeepChainReached ==
    /\ Applied("parseType", "nest")
    /\ input.leaf = Ref("Maybe")
    /\ Len(input.wrappers) = MaxDepth
    /\ Len(output.err.in) = MaxDepth + 2

\* the import table the constructor builds for the program of all files
ImportEntries == prepareImports(Paths).imports
HasImportEntry(module, identifier) ==
    module \in DOMAIN ImportEntries /\ identifier \in DOMAIN ImportEntries[module]

\* the module's file has a top-level declaration of that name
TopLevelDeclaration(module, nodeName) ==
    /\ module \in Paths
    /\ \E i \in 1..Len(SourceFileAt(module).statements) :
          /\ SourceFileAt(module).statements[i].kind \in NamedStatementKinds
          /\ SourceFileAt(module).statements[i].name = nodeName

\* the first of them, as the result of a lookup
DeclarationIn(module, nodeName) ==
    IF ~TopLevelDeclaration(module, nodeName) THEN NotFound
    ELSE Only({Found(module, module, SourceFileAt(module).statements[i]) :
                 i \in {j \in 1..Len(SourceFileAt(module).statements) :
                          /\ SourceFileAt(module).statements[j].kind \in NamedStatementKinds
                          /\ SourceFileAt(module).statements[j].name = nodeName
                          /\ \A k \in 1..(j - 1) :
                                ~(/\ SourceFileAt(module).statements[k].kind
                                        \in NamedStatementKinds
                                  /\ SourceFileAt(module).statements[k].name = nodeName)}})

\* C27: an identifier with an entry (current module, identifier) -> (module,
\* original name) in the import table resolves to the top-level declaration of
\* the original name in that module, with that module; an identifier without
\* entry resolves among the declarations of the current module; and translating
\* leaves the import table as the constructor built it.
ImportedNameResolvesInTarget ==
    /\ Applied("lookupIdentifier", "name") =>
          output.val =
            IF HasImportEntry(input.module, input.identifier)
            THEN DeclarationIn(ImportEntries[input.module][input.identifier][1],
                               ImportEntries[input.module][input.identifier][2])
            ELSE DeclarationIn(input.module, input.identifier)
    /\ (input.fn \in {"parseType", "processRouterNode"} /\ output.status # "pending") =>
          output.fe.imports = ImportEntries

\* Broken in /a.ts, imported as { Bad as Broken }: found as Bad of /types.ts
RenamedImportResolved ==
    /\ Applied("lookupIdentifier", "name")
    /\ HasImportEntry(input.module, input.identifier)
    /\ ImportEntries[input.module][input.identifier][2] # input.identifier
    /\ output.val.status = "found"
    /\ output.val.module # input.module
    /\ output.val.node.name = ImportEntries[input.module][input.identifier][2]

\* Local in /a.ts, not imported and declared in /types.ts too: found in /a.ts
OwnDeclarationResolved ==
    /\ Applied("lookupIdentifier", "name")
    /\ ~HasImportEntry(input.module, input.identifier)
    /\ output.val.status = "found"
    /\ output.val.module = input.module
    /\ \E m \in Paths \ {input.module} : TopLevelDeclaration(m, input.identifier)

\* an import entry whose target declares no such name: nothing is found, the
\* current module is not searched
ImportedNameMissing ==
    /\ Applied("lookupIdentifier", "name")
    /\ HasImportEntry(input.module, input.identifier)
    /\ output.val.status = "null"

\* the module a namespace import of the current module gives the name to
NamespaceTargets(module, namespace) ==
    {SourceFileAt(module).resolvedModules[SourceFileAt(module).statements[i].moduleSpecifier] :
        i \in {j \in 1..Len(SourceFileAt(module).statements) :
                 /\ SourceFileAt(module).statements[j].kind = "ImportDeclaration"
                 /\ SourceFileAt(module).statements[j].hasClause
                 /\ SourceFileAt(module).statements[j].namedBindings.kind = "NamespaceImport"
                 /\ SourceFileAt(module).statements[j].namedBindings.name = namespace
                 /\ SourceFileAt(module).statements[j].moduleSpecifier
                       \in getResolvedModules(SourceFileAt(module))}}

\* a reference ns.T, ns a namespace import of a module that declares an
\* interface, type alias or enum T
NamespaceReference(target) ==
    /\ Applied("parseType", "ref")
    /\ Len(input.segs) = 2
    /\ target \in NamespaceTargets(input.module, input.segs[1])
    /\ TopLevelDeclaration(target, input.segs[2])
    /\ DeclarationIn(target, input.segs[2]).node.kind
          \in {"InterfaceDeclaration", "TypeAliasDeclaration", "EnumDeclaration"}

\* C28: a dotted name ns.T, ns a namespace import of module M and T a top-level
\* interface, type alias or enum of M, is translated as the declaration of T is
\* translated in M.
NamespaceMemberResolves ==
    \A target \in Paths :
        NamespaceReference(target) =>
            \E t \in {parseType(FrontendAt(target), DeclarationIn(target, input.segs[2]).node,
                                IF input.name = NullName THEN input.segs ELSE input.name,
                                input.isKeyof)} :
                output.status = t.status /\ output.val = t.val

\* ns.Base in /a.ts, Base an interface of /types.ts with two members: the
\* Object without members that an unresolved name gives
NamespaceMemberIsOpaque ==
    /\ NamespaceReference("/types.ts")
    /\ input.segs = <<"ns", "Base">>
    /\ lookupIdentifier(FrontendAt(input.module), "ns").status = "null"
    /\ output.status = "ok"
    /\ output.val.kind = "Object"
    /\ output.val.objectMembers = <<>>
    /\ output.val.name = input.segs

\* what holds: no dotted name through a namespace import resolves
NamespaceMembersNeverResolve ==
    \A target \in Paths :
        NamespaceReference(target) =>
            /\ Resolved.status = "null"
            /\ output.status = "ok"
            /\ output.val.objectMembers = <<>>


-----------------------------------------------------------------------------
(* SpecResolve: the recursion of parseType, one activation at a time.  output
   is [status, stack]; an activation is [module, node, isKeyof, kids, pos],
   kids the nodes the case of the node hands to parseType, in order, and pos
   the next of them.  The call stack overflows beyond MaxStack activations. *)

CycProgram == {"/cyc.ts", "/types.ts"}
\* the import table the constructor builds for that program
CycImports == prepareImports(CycProgram).imports
CycAt(module) == Frontend(CycProgram, CycImports, module, module)

Kid(module, node, isKeyof) == [module |-> module, node |-> node, isKeyof |-> isKeyof]

\* a member loop that translates the type of every member, signatures of
\* methods and index signatures included
RECURSIVE everyMemberKids(_, _, _, _)
everyMemberKids(module, members, i, isKeyof) ==
    IF i > Len(members) THEN <<>>
    ELSE (IF "type" \in DOMAIN members[i]
          THEN <<Kid(module, members[i].type, isKeyof)>> ELSE <<>>)
             \o everyMemberKids(module, members, i + 1, isKeyof)

\* the member loop of the type literal and interface cases: the types of the
\* members it translates, up to a member whose name throws
RECURSIVE memberKids(_, _, _, _)
memberKids(module, members, i, isKeyof) ==
    IF i > Len(members) THEN <<>>
    ELSE IF ~members[i].hasName \/ members[i].kind # "PropertySignature"
    THEN memberKids(module, members, i + 1, isKeyof)
    ELSE IF getMemberName(members[i]).status = "throw" THEN <<>>
    ELSE IF getMemberName(members[i]).name = NULL
    THEN memberKids(module, members, i + 1, isKeyof)
    ELSE <<Kid(module, members[i].type, isKeyof)>>
             \o memberKids(module, members, i + 1, isKeyof)

listKids(module, nodes, isKeyof) ==
    [i \in 1..Len(nodes) |-> Kid(module, nodes[i], isKeyof)]
foundKid(r, isKeyof) ==
    IF r.status = "found" THEN <<Kid(r.module, r.node, isKeyof)>> ELSE <<>>

\* the calls of parseType in the case of a node
kidsOf(module, node, isKeyof) ==
    CASE node.kind = "ArrayType" -> <<Kid(module, node.elementType, isKeyof)>>
      [] node.kind = "TupleType" -> listKids(module, node.elementTypes, isKeyof)
      [] node.kind \in {"UnionType", "IntersectionType"} ->
            listKids(module, node.types, isKeyof)
      [] node.kind = "TypeReference" ->
            foundKid(lookupEntity(CycAt(module), node.typeName), isKeyof)
      [] node.kind = "ExpressionWithTypeArguments" ->
            IF node.expression.kind # "Identifier" THEN <<>>
            ELSE foundKid(lookupIdentifier(CycAt(module), node.expression.text), isKeyof)
      [] node.kind = "TypeOperator" ->
            IF node.operator = "KeyOfKeyword" THEN <<Kid(module, node.type, TRUE)>> ELSE <<>>
      [] node.kind = "TypeLiteral" -> memberKids(module, node.members, 1, isKeyof)
      [] node.kind = "InterfaceDeclaration" ->
            memberKids(module, node.members, 1, isKeyof)
                \o listKids(module, heritageTypes(node.heritageClauses, 1), isKeyof)
      [] node.kind = "TypeAliasDeclaration" ->
            IF node.typeParameters > 0 THEN <<>> ELSE <<Kid(module, node.type, isKeyof)>>
      [] OTHER -> <<>>

Activation(kid) ==
    [module |-> kid.module, node |-> kid.node, isKeyof |-> kid.isKeyof,
     kids |-> kidsOf(kid.module, kid.node, kid.isKeyof), pos |-> 1]

Running(stack) == [status |-> "running", stack |-> stack]
Ended(status) == [status |-> status, stack |-> <<>>]

\* the activation on top of the stack
Top == output.stack[Len(output.stack)]

\* the roots: a reference, from /cyc.ts, to one of its declarations
CycRoots ==
    {"Node", "List", "Ping", "Pong", "Loop", "Kid", "Parent", "Fn", "Tree", "Dict",
     "Plain", "Deep"}

\* the calls reached from a set of calls in up to n steps
RECURSIVE KidsWithin(_, _)
KidsWithin(kids, n) ==
    IF n = 0 THEN kids
    ELSE Only({IF more = kids THEN kids ELSE KidsWithin(more, n - 1)
               : more \in {kids \cup UNION {Range(kidsOf(k.module, k.node, k.isKeyof))
                                               : k \in kids}}})
CallsBelow(k) == KidsWithin(Range(kidsOf(k.module, k.node, k.isKeyof)), MaxStack)
\* the calls the recursion can make from the roots, those that lead back to
\* themselves, and those below which no call does
AllCalls == KidsWithin({Kid("/cyc.ts", Ref(r), b) : r \in CycRoots, b \in BOOLEAN}, MaxStack)
Recurring == {k \in AllCalls : k \in CallsBelow(k)}
Settling == {k \in AllCalls : (CallsBelow(k) \cup {k}) \cap Recurring = {}}

\* what an activation ends with once the calls it made have returned: the
\* status of parseType on its node, which is evaluated where the calls settle
EndOfCall ==
    [k \in Settling |-> parseType(CycAt(k.module), k.node, NullName, k.isKeyof).status]
endOf(activation) ==
    EndOfCall[Kid(activation.module, activation.node, activation.isKeyof)]

ResolveInit ==
    /\ IdleRun
    /\ \E root \in CycRoots, isKeyof \in BOOLEAN :
          input = [fn |-> "resolve", module |-> "/cyc.ts", root |-> root,
                   node |-> Ref(root), isKeyof |-> isKeyof]
    /\ output = Running(<<Activation(Kid(input.module, input.node, input.isKeyof))>>)

\* the next call of parseType of the activation on top
EnterType ==
    /\ input.fn = "resolve"
    /\ output.status = "running"
    /\ Top.pos <= Len(Top.kids)
    /\ output' = IF Len(output.stack) >= MaxStack THEN Ended("overflow")
                 ELSE Running(Append(output.stack, Activation(Top.kids[Top.pos])))
    /\ UNCHANGED <<input, runVars>>

\* the activation on top made all its calls: it returns to its caller or throws,
\* and what it throws no caller handles
LeaveType ==
    /\ input.fn = "resolve"
    /\ output.status = "running"
    /\ Top.pos > Len(Top.kids)
    /\ output' =
          IF endOf(Top) # "ok" THEN Ended("threw")
          ELSE IF Len(output.stack) = 1 THEN Ended("returned")
          ELSE Running([i \in 1..(Len(output.stack) - 1) |->
                           IF i = Len(output.stack) - 1
                           THEN [output.stack[i] EXCEPT !.pos = @ + 1]
                           ELSE output.stack[i]])
    /\ UNCHANGED <<input, runVars>>

ResolveNext == EnterType \/ LeaveType

SpecResolve == ResolveInit /\ [][ResolveNext]_vars /\ WF_vars(ResolveNext)


-----------------------------------------------------------------------------
(* Properties of the recursion (SpecResolve). *)

\* the names a piece of syntax mentions; translated: only where parseType is
\* handed the type (the named property signatures of a member list)
RECURSIVE NamesIn(_, _)
NamesInAll(nodes, translated) ==
    UNION {NamesIn(nodes[i], translated) : i \in 1..Len(nodes)}
NamesInMembers(members, translated) ==
    UNION {NamesIn(members[i].type, translated) :
              i \in {j \in 1..Len(members) :
                        /\ "type" \in DOMAIN members[j]
                        /\ translated =>
                              /\ members[j].hasName
                              /\ members[j].kind = "PropertySignature"}}
NamesIn(node, translated) ==
    CASE node.kind = "TypeReference" -> {node.typeName.text}
      [] node.kind = "ExpressionWithTypeArguments" -> {node.expression.text}
      [] node.kind = "ArrayType" -> NamesIn(node.elementType, translated)
      [] node.kind = "TupleType" -> NamesInAll(node.elementTypes, translated)
      [] node.kind \in {"UnionType", "IntersectionType"} -> NamesInAll(node.types, translated)
      [] node.kind = "TypeLiteral" -> NamesInMembers(node.members, translated)
      [] node.kind = "InterfaceDeclaration" ->
            NamesInMembers(node.members, translated)
                \cup NamesInAll(heritageTypes(node.heritageClauses, 1), translated)
      [] node.kind = "TypeAliasDeclaration" -> NamesIn(node.type, translated)
      [] OTHER -> {}

\* the declarations of /cyc.ts by name; what /cyc.ts imports from /types.ts
\* mentions no name of /cyc.ts
CycDeclared ==
    {CycTs.statements[i].name : i \in 2..Len(CycTs.statements)}
CycDeclaration(name) ==
    CycTs.statements[CHOOSE i \in 2..Len(CycTs.statements) : CycTs.statements[i].name = name]
Mentions(name, translated) ==
    IF name \in CycDeclared THEN NamesIn(CycDeclaration(name), translated) ELSE {}
\* the names reached from a set of names in up to k steps
RECURSIVE ReachedFrom(_, _, _)
ReachedFrom(names, translated, k) ==
    IF k = 0 THEN names
    ELSE Only({ReachedFrom(more, translated, k - 1)
               : more \in {names \cup UNION {Mentions(n, translated) : n \in names}}})
\* the declaration refers to itself, directly or through a chain
RefersToItself(name, translated) ==
    name \in ReachedFrom(Mentions(name, translated), translated, Cardinality(CycDeclared))

\* the roots that refer to themselves anywhere in their syntax, and where the
\* type is translated
SelfReferring == {name \in CycRoots : RefersToItself(name, FALSE)}
SelfTranslating == {name \in CycRoots : RefersToItself(name, TRUE)}

Terminated == output.status \in {"returned", "threw"}

\* C26: the translation of a declaration that refers to itself, directly or
\* through a chain of references or extends clauses, never returns, and the
\* translation of one that does not terminates.
SelfReferenceNeverReturns ==
    /\ [](input.root \in SelfReferring => output.status # "returned")
    /\ (~input.root \in SelfReferring) => <>Terminated

\* interface Tree { children(): Tree; label: string; } is translated
SelfReferenceInMethodReturns ==
    /\ input.root = "Tree"
    /\ "Tree" \in SelfReferring
    /\ output.status = "returned"

\* amended: the same of a declaration that refers to itself where the type is
\* translated, that is in an alias, an extends clause, the type of a named
\* property signature, or an element of those
TranslatedSelfReferenceNeverReturns ==
    /\ [](input.root \in SelfTranslating => output.status # "returned")
    /\ (~input.root \in SelfTranslating) => <>Terminated

\* Ping and Pong refer to each other: the call stack overflows
MutualReferenceOverflows ==
    /\ input.root = "Ping"
    /\ "Ping" \in SelfTranslating
    /\ ~("Ping" \in Mentions("Ping", TRUE))
    /\ output.status = "overflow"

\* the type Deep, which mentions Plain twice, is translated
SharedReferenceReturns ==
    /\ input.root = "Deep"
    /\ "Deep" \notin SelfReferring
    /\ output.status = "returned"

\* where the recursion ends it ends as parseType does
RecursionEndsAsParseType ==
    Terminated =>
        (output.status = "returned") <=>
            parseType(CycAt(input.module), input.node, NullName, input.isKeyof).status = "ok"



-----------------------------------------------------------------------------
(* Properties of a run and the runs that follow it (SpecRerun). *)

\* the output targets of the run, in the order compile() comes to them
Target(fileName, txt) == [fileName |-> fileName, txt |-> txt]
OutputTargets ==
    (IF cmdOpts.outputFile # NULL
     THEN <<Target(outputFileName(cmdOpts.outputFile), printMarkdownFull(routers))>>
     ELSE <<>>)
    \o (IF cmdOpts.outputDirectory # NULL
        THEN [i \in 1..Len(routers) |->
                Target(routerFileName(cmdOpts.outputDirectory, routers[i]),
                       printMarkdown(routers[i], TRUE))]
        ELSE <<>>)

\* the files once the first k targets are written
RECURSIVE FilesAfter(_, _, _)
FilesAfter(files, targets, k) ==
    IF k = 0 THEN files
    ELSE Only({[f \in DOMAIN before \cup {targets[k].fileName} |->
                  IF f = targets[k].fileName THEN targets[k].txt ELSE before[f]] :
               before \in {FilesAfter(files, targets, k - 1)}})

\* target k did not exist, or held other content, when the run came to it
FoundDifferent(k) ==
    \E files \in {FilesAfter(fs0, OutputTargets, k - 1)} :
        \/ OutputTargets[k].fileName \notin DOMAIN files
        \/ files[OutputTargets[k].fileName] # OutputTargets[k].txt

\* C22: a completed run with --checkUnchanged exits with 2 exactly if an output
\* target (the --output file, a file <outdir>/<Router name>.md) did not exist or
\* held other content than generated when the run came to it, else with 0; a
\* run without --checkUnchanged exits with 0; and every output file is written
\* with the generated text in either case.
CheckUnchangedExitCode ==
    pc = "exited" =>
        /\ exitCode = IF /\ cmdOpts.checkUnchanged
                         /\ \E k \in 1..Len(OutputTargets) : FoundDifferent(k)
                      THEN 2 ELSE 0
        /\ \A k \in 1..Len(OutputTargets) :
              /\ OutputTargets[k].fileName \in DOMAIN fs
              /\ \E j \in k..Len(OutputTargets) :
                    /\ OutputTargets[j].fileName = OutputTargets[k].fileName
                    /\ fs[OutputTargets[k].fileName] = OutputTargets[j].txt
        /\ \A f \in DOMAIN fs :
              \/ f \in DOMAIN fs0 /\ fs[f] = fs0[f]
              \/ \E k \in 1..Len(OutputTargets) : OutputTargets[k].fileName = f

\* a run that found its first target missing and a later target up to date
ChangeFoundBeforeUnchangedTarget ==
    /\ pc = "exited"
    /\ cmdOpts.checkUnchanged
    /\ exitCode = 2
    /\ Len(OutputTargets) > 1
    /\ FoundDifferent(1)
    /\ ~FoundDifferent(Len(OutputTargets))
    /\ fs # fs0

\* a run with --checkUnchanged that found every target up to date
NoChangeFound ==
    /\ pc = "exited"
    /\ cmdOpts.checkUnchanged
    /\ Len(OutputTargets) > 1
    /\ exitCode = 0

\* the run follows a completed run of the same input files and output options,
\* and has --checkUnchanged
FollowsSameRun ==
    /\ priorRuns # <<>>
    /\ priorRuns[Len(priorRuns)].files = cmdOpts.files
    /\ priorRuns[Len(priorRuns)].outputFile = cmdOpts.outputFile
    /\ priorRuns[Len(priorRuns)].outputDirectory = cmdOpts.outputDirectory
    /\ cmdOpts.checkUnchanged

RouterNamesDistinct ==
    \A i, j \in 1..Len(routers) : i # j => routers[i].name # routers[j].name

\* C30: the run that follows a completed run, with --checkUnchanged, on the same
\* inputs and output targets detects no change and exits with 0, whatever the
\* Routers and the output options.
RerunDetectsNoChange ==
    (pc = "exited" /\ FollowsSameRun) => exitCode = 0

\* /b.ts and /d.ts each export a Router BRoutes: docs/BRoutes.md holds the text
\* of the second, the run that follows compares it with the text of the first
RerunOfSameNamedRoutersExits2 ==
    /\ pc = "exited"
    /\ FollowsSameRun
    /\ cmdOpts.outputDirectory # NULL
    /\ ~RouterNamesDistinct
    /\ fs = fs0
    /\ exitCode = 2

\* what holds: the run that follows detects no change if no two Routers have
\* the same name, or without --outdir
RerunOfDistinctNamesDetectsNoChange ==
    (/\ pc = "exited"
     /\ FollowsSameRun
     /\ cmdOpts.outputDirectory = NULL \/ RouterNamesDistinct) => exitCode = 0

\* a run that follows with --checkUnchanged and exits with 0 after writing
RerunExitedWith0 ==
    /\ pc = "exited"
    /\ FollowsSameRun
    /\ Len(OutputTargets) > 1
    /\ exitCode = 0

-----------------------------------------------------------------------------
(* The printer (printer.ts), character by character, on the layout engine
   above.  A Type is a value of the Type model whose name is the string of its
   characters (NullName for null), whose numbers are naturals and whose strings
   are strings of characters; documentation is NullDoc or Doc(string). *)

MaxRoutes == 2         \* routes of a generated Router
MaxRouters == 2        \* Routers handed to printMarkdownFull

INDENT_SIZE == 2

\* the character U+0060, which no string of the module can hold
BackQuote == "<backquote>"

\* the characters \s matches, of those that occur
Whitespace == {" ", "\t", "\n"}

\* text.split("\n") for a text of any length: the lines between the places
\* of the line feeds
splitLines(text) ==
    LET IsLineFeed(i) == text[i] = "\n"
        feeds == SelectSeq([i \in 1..Len(text) |-> i], IsLineFeed)
    IN  [k \in 1..(Len(feeds) + 1) |->
            SubSeq(text, IF k = 1 THEN 1 ELSE feeds[k - 1] + 1,
                         IF k > Len(feeds) THEN Len(text) ELSE feeds[k] - 1)]

\* the block hcat and vcat make of a string handed to them (asTextBlock)
blockOfText(text) == TextBlockOfLines(splitLines(text), 0)

\* the block a layout call returns, its lines computed once and kept as a
\* tuple; a TypeError of hcat would show as a line
BlockOf(result) ==
    IF result.status = "ok"
    THEN TextBlockOfLines(result.val.lines \o <<>>, result.val.indention)
    ELSE TextBlockOfLines(<<<<"T", "y", "p", "e", "E", "r", "r", "o", "r">>>>, 0)

\* Number.prototype.toString and String(boolean)
Digits == <<"0", "1", "2", "3", "4", "5", "6", "7", "8", "9">>
RECURSIVE showNumber(_)
showNumber(n) ==
    IF n < 10 THEN <<Digits[n + 1]>> ELSE showNumber(n \div 10) \o <<Digits[(n % 10) + 1]>>
showBoolean(b) == IF b THEN <<"t", "r", "u", "e">> ELSE <<"f", "a", "l", "s", "e">>

\* JSON.stringify of a string: quotes around it, the quote, the backslash and
\* the line feed escaped
RECURSIVE escapeChars(_, _)
escapeChars(s, i) ==
    IF i > Len(s) THEN <<>>
    ELSE (CASE s[i] = "\"" -> <<"\\", "\"">>
            [] s[i] = "\\" -> <<"\\", "\\">>
            [] s[i] = "\n" -> <<"\\", "n">>
            [] s[i] = "\t" -> <<"\\", "t">>
            [] OTHER -> <<s[i]>>) \o escapeChars(s, i + 1)
stringify(s) == <<"\"">> \o escapeChars(s, 1) \o <<"\"">>

\* array.join(separator) of strings
RECURSIVE joinWith(_, _, _)
joinWith(strings, separator, i) ==
    IF i > Len(strings) THEN <<>>
    ELSE IF i = Len(strings) THEN strings[i]
    ELSE strings[i] \o separator \o joinWith(strings, separator, i + 1)

\* documentation || ""
orEmpty(doc) == IF doc.state = "text" THEN doc.text ELSE <<>>

\* showDocType
showDocType(doc) ==
    IF doc.documentation.state # "text" THEN EMPTY
    ELSE BlockOf(staticHcat(<<
            blockOfText(<<" ", "/", "*", " ">>),
            blockOfText(doc.documentation.text),
            TextBlockOfLines(
                [i \in 1..height(blockOfText(doc.documentation.text)) |->
                    IF i < height(blockOfText(doc.documentation.text))
                    THEN <<>> ELSE <<" ", "*", "/">>], 0)>>))

\* isSimpleType
RECURSIVE isSimpleType(_)
isSimpleType(type) ==
    CASE type.kind \in {"Number", "Boolean", "String"} -> type.all
      [] type.kind = "Array" -> isSimpleType(type.sub[1])
      [] type.kind \in {"Tuple", "Null", "Undefined"} -> TRUE
      [] OTHER -> FALSE

\* memberKeys.reduce((acc, key) => Math.max(acc, key.length), 0)
longestNameOf(members) == MaxOf({0} \cup {Len(members[i].name) : i \in 1..Len(members)})

\* a member line without the padding of the value
unpaddedMember(memberName, value, longestName) ==
    indent(BlockOf(staticHcat(<<blockOfText(memberName), blockOfText(<<":", " ">>), value,
                                blockOfText(<<";">>)>>)),
           INDENT_SIZE)

\* the member line of printMarkdownType, lines 422-427
memberBlock(memberName, value, longestName) ==
    indent(BlockOf(staticHcat(<<blockOfText(memberName), blockOfText(<<":", " ">>),
                                indent(value, longestName - Len(memberName)),
                                blockOfText(<<";">>)>>)),
           INDENT_SIZE)

\* the texts of the operands of a Tuple, Union or Intersection
RECURSIVE printMarkdownType(_)
operandTexts(type) ==
    [i \in 1..Len(type.sub) |-> toString(printMarkdownType(type.sub[i]))] \o <<>>
\* the blocks of the values of the members of an Object
memberValues(type) ==
    [i \in 1..Len(type.objectMembers) |-> printMarkdownType(type.objectMembers[i].type)] \o <<>>

\* printMarkdownType; the blocks of the parts of a type are computed before the
\* block of the type is laid out
printMarkdownType(type) ==
    CASE type.kind = "Number" ->
           BlockOf(staticHcat(<<
               blockOfText(IF type.all THEN <<"n", "u", "m", "b", "e", "r">>
                           ELSE joinWith([i \in 1..Len(type.numbers) |->
                                             showNumber(type.numbers[i])], <<" ", "|", " ">>, 1)),
               showDocType(type)>>))
      [] type.kind = "Boolean" ->
           BlockOf(staticHcat(<<
               blockOfText(IF type.all THEN <<"b", "o", "o", "l", "e", "a", "n">>
                           ELSE joinWith([i \in 1..Len(type.booleans) |->
                                             showBoolean(type.booleans[i])], <<" ", "|", " ">>, 1)),
               showDocType(type)>>))
      [] type.kind = "String" ->
           BlockOf(staticHcat(<<
               blockOfText(IF type.all THEN <<"s", "t", "r", "i", "n", "g">>
                           ELSE joinWith([i \in 1..Len(type.strings) |->
                                             stringify(type.strings[i])], <<" ", "|", " ">>, 1)),
               showDocType(type)>>))
      [] type.kind = "Array" ->
           Only({IF isSimpleType(type.sub[1])
                 THEN BlockOf(staticHcat(<<sub, blockOfText(<<"[", "]">>), showDocType(type)>>))
                 ELSE BlockOf(hcat(blockOfText(<<"A", "r", "r", "a", "y", "<">> \o toString(sub) \o <<">">>),
                                   <<showDocType(type)>>)) :
                    sub \in {printMarkdownType(type.sub[1])}})
      [] type.kind = "Tuple" ->
           Only({BlockOf(hcat(blockOfText(<<"[">> \o joinWith(texts, <<",", " ">>, 1) \o <<"]">>),
                              <<showDocType(type)>>)) :
                    texts \in {operandTexts(type)}})
      [] type.kind = "Object" ->
           IF Len(type.objectMembers) = 0
           THEN BlockOf(staticHcat(<<
                    blockOfText(IF type.name = NullName THEN <<"{", "}">> ELSE type.name),
                    showDocType(type)>>))
           ELSE Only({BlockOf(staticVcat(
                          <<blockOfText(<<"{">>)>>
                          \o [i \in 1..Len(type.objectMembers) |->
                                memberBlock(type.objectMembers[i].name, values[i],
                                            longestNameOf(type.objectMembers))]
                          \o <<BlockOf(staticHcat(<<blockOfText(<<"}">>), showDocType(type)>>))>>)) :
                         values \in {memberValues(type)}})
      [] type.kind = "Null" -> blockOfText(<<"n", "u", "l", "l">>)
      [] type.kind = "Undefined" -> blockOfText(<<"u", "n", "d", "e", "f", "i", "n", "e", "d">>)
      [] type.kind = "Intersection" ->
           Only({BlockOf(staticHcat(<<blockOfText(joinWith(texts, <<" ", "&", " ">>, 1)),
                                      showDocType(type)>>)) :
                    texts \in {operandTexts(type)}})
      [] type.kind = "Union" ->
           Only({BlockOf(staticHcat(<<blockOfText(joinWith(texts, <<" ", "|", " ">>, 1)),
                                      showDocType(type)>>)) :
                    texts \in {operandTexts(type)}})
      [] OTHER -> EMPTY

\* the fenced block of a type, indented by INDENT_SIZE, lines 288-292
fencedType(type) ==
    Only({indent(BlockOf(staticVcat(<<blockOfText(<<BackQuote, BackQuote, BackQuote, "t", "s">>), block, blockOfText(<<BackQuote, BackQuote, BackQuote>>)>>)),
                 INDENT_SIZE) :
             block \in {printMarkdownType(type)}})

\* the block of method.authorization and of method.body, lines 285-294, 297-306
typedSection(label, field) ==
    Only({BlockOf(staticVcat(<<
              BlockOf(staticHcat(<<blockOfText(label), blockOfText(orEmpty(field.documentation))>>)),
              blockOfText(<<>>),
              fenced,
              blockOfText(<<>>)>>)) :
             fenced \in {fencedType(field.type)}})

\* lines 312-321
paramBlock(param) ==
    Only({indent(BlockOf(staticVcat(<<
              BlockOf(staticHcat(<<blockOfText(<<"-", " ", BackQuote>>), blockOfText(param.name), blockOfText(<<BackQuote, ":", " ">>),
                                   blockOfText(orEmpty(param.documentation))>>)),
              blockOfText(<<>>),
              fenced,
              blockOfText(<<>>)>>)), INDENT_SIZE) :
             fenced \in {fencedType(param.type)}})

\* lines 328-343
queryBlock(param) ==
    Only({indent(BlockOf(staticVcat(<<
              BlockOf(staticHcat(<<blockOfText(<<"-", " ", BackQuote>>), blockOfText(param.name), blockOfText(<<BackQuote>>),
                                   blockOfText(IF param.required THEN <<>> ELSE <<" ", "(", "o", "p", "t", "i", "o", "n", "a", "l", ")">>),
                                   blockOfText(<<":", " ">>),
                                   blockOfText(orEmpty(param.documentation))>>)),
              blockOfText(<<>>),
              fenced,
              blockOfText(<<>>)>>)), INDENT_SIZE) :
             fenced \in {fencedType(param.type)}})

\* lines 350-366; body is <<>> for null
responseBlock(response) ==
    Only({indent(BlockOf(staticVcat(<<
              BlockOf(staticHcat(<<blockOfText(<<"-", " ", BackQuote>>), blockOfText(showNumber(response.status)),
                                   blockOfText(<<BackQuote, ":", " ">>),
                                   blockOfText(orEmpty(response.documentation))>>)),
              blockOfText(<<>>),
              body,
              blockOfText(<<>>)>>)), INDENT_SIZE) :
             body \in {IF Len(response.body) = 0
                       THEN indent(blockOfText(<<"E", "m", "p", "t", "y", " ", "r", "e", "s", "p", "o", "n", "s", "e">>), INDENT_SIZE)
                       ELSE Only({indent(BlockOf(staticVcat(<<blockOfText(<<>>), blockOfText(<<BackQuote, BackQuote, BackQuote, "t", "s">>),
                                                               block, blockOfText(<<BackQuote, BackQuote, BackQuote>>)>>)),
                                         INDENT_SIZE) :
                                     block \in {printMarkdownType(response.body[1])}})}})

\* the docs array of printMarkdownMethod; authorization and body are <<>> for null
methodDocs(routePath, method) ==
    <<BlockOf(staticHcat(<<blockOfText(<<"-", " ", "M", "e", "t", "h", "o", "d", ":", " ", BackQuote>>), blockOfText(method.method),
                           blockOfText(<<BackQuote>>)>>)),
      BlockOf(staticHcat(<<blockOfText(<<"-", " ", "R", "o", "u", "t", "e", ":", " ">>), routePath>>))>>
    \o (IF method.documentation.state # "null"
        THEN <<BlockOf(staticHcat(<<blockOfText(<<"-", " ">>),
                                    blockOfText(method.documentation.text)>>))>>
        ELSE <<>>)
    \o (IF Len(method.authorization) > 0
        THEN <<typedSection(<<"-", " ", "A", "u", "t", "h", "o", "r", "i", "z", "a", "t", "i", "o", "n", ":", " ">>, method.authorization[1])>> ELSE <<>>)
    \o (IF Len(method.body) > 0
        THEN <<typedSection(<<"-", " ", "B", "o", "d", "y", ":", " ">>, method.body[1])>> ELSE <<>>)
    \o (IF Len(method.params) > 0
        THEN <<Only({BlockOf(staticVcat(<<blockOfText(<<"-", " ", "P", "a", "r", "a", "m", "e", "t", "e", "r", "s", ":">>), blockOfText(<<>>)>> \o blocks)) :
                        blocks \in {[i \in 1..Len(method.params) |->
                                        paramBlock(method.params[i])] \o <<>>}})>>
        ELSE <<>>)
    \o (IF Len(method.query) > 0
        THEN <<Only({BlockOf(staticVcat(<<blockOfText(<<"-", " ", "Q", "u", "e", "r", "y", "-", "P", "a", "r", "a", "m", "e", "t", "e", "r", "s", ":">>), blockOfText(<<>>)>> \o blocks)) :
                        blocks \in {[i \in 1..Len(method.query) |->
                                        queryBlock(method.query[i])] \o <<>>}})>>
        ELSE <<>>)
    \o (IF Len(method.responses) > 0
        THEN <<Only({BlockOf(staticVcat(<<blockOfText(<<"-", " ", "R", "e", "s", "p", "o", "n", "s", "e", ":">>), blockOfText(<<>>)>> \o blocks)) :
                        blocks \in {[i \in 1..Len(method.responses) |->
                                        responseBlock(method.responses[i])] \o <<>>}})>>
        ELSE <<>>)

\* printMarkdownMethod
printMarkdownMethod(routePath, routeDesc, method, level) ==
    Only({BlockOf(staticVcat(
              <<BlockOf(staticHcat(<<blockOfText(IF level = 2 THEN <<"#", "#">> ELSE <<"#", "#", "#">>),
                                     blockOfText(<<" ">>), blockOfText(method.name)>>)),
                blockOfText(<<>>),
                routeDesc>>
              \o docs)) :
             docs \in {methodDocs(routePath, method)}})

\* path.join of two paths without . and .. segments: joined by a slash, runs
\* of slashes collapsed
RECURSIVE collapseSlashes(_, _)
collapseSlashes(s, i) ==
    IF i > Len(s) THEN <<>>
    ELSE IF s[i] = "/" /\ i < Len(s) /\ s[i + 1] = "/" THEN collapseSlashes(s, i + 1)
    ELSE <<s[i]>> \o collapseSlashes(s, i + 1)
pathJoin(a, b) == collapseSlashes(a \o <<"/">> \o b, 1)

\* the description block of a router or route
descOf(documented) ==
    IF documented.documentation.state # "null"
    THEN BlockOf(staticHcat(<<blockOfText(<<"-", " ">>), blockOfText(documented.documentation.text)>>))
    ELSE EMPTY

\* printMarkdownEndpoint(routerBase, level)(route)
printMarkdownEndpoint(routerBase, level, route) ==
    Only({BlockOf(vJoin(methods, blockOfText(<<"\n", "\n">>))) :
             methods \in {[i \in 1..Len(route.methods) |->
                             printMarkdownMethod(
                                 BlockOf(staticHcat(<<blockOfText(<<BackQuote>>),
                                                      blockOfText(pathJoin(routerBase, route.route)),
                                                      blockOfText(<<BackQuote>>)>>)),
                                 descOf(route), route.methods[i], level)] \o <<>>}})

\* a map over the lines that leaves them as they are
keepLine(s) == s

\* s.trimRight() and s.trim() of a string of characters
RECURSIVE trimEnd(_)
trimEnd(s) ==
    IF Len(s) > 0 /\ s[Len(s)] \in Whitespace THEN trimEnd(SubSeq(s, 1, Len(s) - 1))
    ELSE s
RECURSIVE trimStart(_)
trimStart(s) == IF Len(s) > 0 /\ s[1] \in Whitespace THEN trimStart(Tail(s)) ELSE s
trimString(s) == trimStart(trimEnd(s))

\* s.replace(/\n{3,}/g, "\n\n"): of a run of line feeds the first two stay
collapseLineFeeds(s) ==
    LET Stays(i) == ~(s[i] = "\n" /\ i > 2 /\ s[i - 1] = "\n" /\ s[i - 2] = "\n")
        places == SelectSeq([i \in 1..Len(s) |-> i], Stays)
    IN  [k \in 1..Len(places) |-> s[places[k]]]

\* lines.join("\n") for any number of lines: the two halves joined
RECURSIVE joinRange(_, _, _)
joinRange(lines, first, last) ==
    IF first > last THEN <<>>
    ELSE IF first = last THEN lines[first]
    ELSE joinRange(lines, first, (first + last) \div 2) \o <<"\n">>
             \o joinRange(lines, (first + last) \div 2 + 1, last)
joinLines(lines) == joinRange(lines, 1, Len(lines))
\* block.toString() of a block of any height
textOf(this) == joinLines(toIndentStrings(this))

\* .split("\n").map((s) => s.trimRight()).join("\n")
trimLines(text) ==
    Only({joinLines([i \in 1..Len(lines) |-> trimEnd(lines[i])]) :
             lines \in {splitLines(text)}})

\* printMarkdown(router, printTOC): the string returned
\* the block printMarkdown lays out, lines 242-253
routerBlock(router, printTOC) ==
    Only({BlockOf(staticVcat(<<
              blockOfText((IF printTOC THEN <<"#">> ELSE <<"#", "#">>) \o <<" ">> \o router.name),
              blockOfText(<<>>),
              BlockOf(staticHcat(<<blockOfText(<<"-", " ", "P", "r", "e", "f", "i", "x", " ", "f", "o", "r", " ", "a", "l", "l", " ", "r", "o", "u", "t", "e", "s", ":", " ", BackQuote>>),
                                   blockOfText(router.routeBase), blockOfText(<<BackQuote>>)>>)),
              descOf(router),
              blockOfText(IF printTOC THEN <<"\n", "[", "T", "O", "C", "]", "\n">> ELSE <<>>),
              BlockOf(vJoin(endpoints, blockOfText(<<"\n", "\n">>)))>>)) :
             endpoints \in {[i \in 1..Len(router.routes) |->
                               printMarkdownEndpoint(router.routeBase,
                                                     IF printTOC THEN 2 ELSE 3,
                                                     router.routes[i])] \o <<>>}})

\* printMarkdown(router, printTOC): the string returned
printMarkdownText(router, printTOC) ==
    Only({Only({trimString(collapseLineFeeds(trimmed)) \o <<"\n">> :
                   trimmed \in {trimLines(textOf(block))}}) :
             block \in {routerBlock(router, printTOC)}})

\* printMarkdownFull(routers): the string returned
printMarkdownFullText(rs) ==
    Only({trimString(textOf(BlockOf(vcat(
              TextBlockOfLines(<< <<"#", " ", "R", "o", "u", "t", "e", "s">>, <<>>, <<"[", "T", "O", "C", "]">>, <<>> >>, 0),
              [i \in 1..Len(rs) |-> blockOfText(texts[i])])))) \o <<"\n">> :
             texts \in {[i \in 1..Len(rs) |-> printMarkdownText(rs[i], FALSE)] \o <<>>}})

(* SpecPrinter: printMarkdownType, printMarkdown and printMarkdownFull applied
   to generated Types and Routers.  The documentation texts have one line, or
   lines that end in blanks with blank lines between them. *)

PrintDocs == {NullDoc, Doc(<<"d">>), Doc(<<"d", " ", "\n", "\n", "\n", "e", " ", "f", " ">>)}
PrintLeaves ==
    UNION {{NumberAll(NullName, doc), Numbers(<<1, 12>>, NullName, doc),
            BooleanAll(NullName, doc), Booleans(<<TRUE, FALSE>>, NullName, doc),
            StringAll(NullName, doc), Strings(<<<<"a">>, <<"b", "\"">>>>, NullName, doc),
            NullType(doc), UndefinedType(doc),
            ObjectType(<<>>, NullName, doc), ObjectType(<<>>, <<"D", "a", "t", "e">>, doc)} :
           doc \in PrintDocs}
\* operands, elements and member types
PrintOperands ==
    {NumberAll(NullName, NullDoc), StringAll(NullName, Doc(<<"d">>)),
     Strings(<<<<"a">>>>, NullName, Doc(<<"d", " ", "\n", "\n", "\n", "e", " ", "f", " ">>)), NullType(Doc(<<"d">>)),
     ObjectType(<<>>, <<"D", "a", "t", "e">>, NullDoc),
     ObjectType(<<[name |-> <<"x">>, type |-> NumberAll(NullName, NullDoc)]>>, NullName, NullDoc)}
MemberNameChoices == {<<"a">>, <<"i", "d">>, <<"i", "t", "e", "m">>}
PrintMembers == {[name |-> n, type |-> t] : n \in MemberNameChoices, t \in PrintOperands}
PrintMemberLists ==
    {ms \in SeqsUpTo(PrintMembers, MaxMembers) :
        \A i, j \in 1..Len(ms) : i # j => ms[i].name # ms[j].name}
PrintTypes ==
    PrintLeaves
      \cup {ArrayType(t, NullName, doc) : t \in PrintLeaves \cup PrintOperands, doc \in PrintDocs}
      \cup {ArrayType(ArrayType(t, NullName, NullDoc), NullName, doc) :
               t \in PrintOperands, doc \in PrintDocs}
      \cup {TupleType(ts, NullName, doc) :
               ts \in SeqsUpTo(PrintOperands, MaxOperands), doc \in PrintDocs}
      \cup {UnionType(ts, NullName, doc) :
               ts \in SeqsUpTo(PrintOperands, MaxOperands), doc \in PrintDocs}
      \cup {IntersectionType(ts, NullName, doc) :
               ts \in SeqsUpTo(PrintOperands, MaxOperands), doc \in PrintDocs}
      \cup {ObjectType(ms, NullName, doc) : ms \in PrintMemberLists, doc \in PrintDocs}

TypedField(doc, type) == [documentation |-> doc, type |-> type]
Param(name, doc, type) == [name |-> name, documentation |-> doc, type |-> type]
QueryParam(name, required, doc, type) ==
    [name |-> name, required |-> required, documentation |-> doc, type |-> type]
Response(status, doc, body) == [status |-> status, documentation |-> doc, body |-> body]
PrintMethod(name, method, doc, authorization, body, params, query, responses) ==
    [name |-> name, method |-> method, documentation |-> doc,
     authorization |-> authorization, body |-> body, params |-> params,
     query |-> query, responses |-> responses]
DocumentedObject ==
    ObjectType(<<[name |-> <<"i", "d">>, type |-> NumberAll(NullName, Doc(<<"d", " ", "\n", "\n", "\n", "e", " ", "f", " ">>))],
                 [name |-> <<"i", "t", "e", "m">>, type |-> StringAll(NullName, NullDoc)]>>,
               NullName, Doc(<<"d">>))
PrintMethods ==
    {PrintMethod(<<"G", "e", "t", " ", "X">>, <<"G", "E", "T">>, NullDoc, <<>>, <<>>, <<>>, <<>>, <<>>),
     PrintMethod(<<"P", "u", "t", " ", "X">>, <<"P", "U", "T">>, Doc(<<"d", " ", "\n", "\n", "\n", "e", " ", "f", " ">>),
                 <<TypedField(NullDoc, StringAll(NullName, NullDoc))>>,
                 <<TypedField(Doc(<<"d", " ", "\n", "\n", "\n", "e", " ", "f", " ">>), DocumentedObject)>>, <<>>, <<>>, <<>>),
     PrintMethod(<<" ">>, <<"P", "O", "S", "T">>, Doc(<<"\n", "\n", "\n">>), <<>>, <<>>,
                 <<Param(<<"i", "d">>, Doc(<<"d">>), NumberAll(NullName, NullDoc)),
                   Param(<<"k">>, NullDoc, DocumentedObject)>>,
                 <<QueryParam(<<"q">>, FALSE, NullDoc, BooleanAll(NullName, NullDoc)),
                   QueryParam(<<"r">>, TRUE, Doc(<<"d", " ", "\n", "\n", "\n", "e", " ", "f", " ">>), StringAll(NullName, Doc(<<"d">>)))>>,
                 <<>>),
     PrintMethod(<<"G", "e", "t", " ", "Y">>, <<"G", "E", "T">>, NullDoc, <<>>, <<>>, <<>>, <<>>,
                 <<Response(200, Doc(<<"d">>), <<DocumentedObject>>),
                   Response(204, Doc(<<"d", " ", "\n", "\n", "\n", "e", " ", "f", " ">>), <<>>),
                   Response(404, NullDoc, <<UndefinedType(NullDoc)>>)>>)}
PrintRoute(route, doc, methods) == [route |-> route, documentation |-> doc, methods |-> methods]
PrintRoutes ==
    {PrintRoute(<<"/", "x">>, NullDoc, <<>>)}
      \cup {PrintRoute(<<"/", "x">>, NullDoc, <<m>>) : m \in PrintMethods}
      \cup {PrintRoute(<<"/", "y", "/">>, Doc(<<" ", "d", " ", "\n", "\n", "\n">>), <<m, m>>) :
               m \in {n \in PrintMethods : n.documentation # NullDoc}}
PrintRouter(name, base, doc, routes) ==
    [name |-> name, routeBase |-> base, documentation |-> doc, routes |-> routes]
PrintRouters ==
    {PrintRouter(<<"R">>, <<"/", "a", "/">>, doc, routes) :
        doc \in {NullDoc, Doc(<<"\n", "\n", "\n", "d", " ", "\n", "\n", "\n", "e", " ">>)},
        routes \in SeqsUpTo(PrintRoutes, MaxRoutes)}
\* the Routers of a document
DocumentRouters ==
    {PrintRouter(name, <<"/", "a", "/">>, NullDoc, <<>>) : name \in {<<"R">>, <<"S", " ">>}}
      \cup {PrintRouter(name, <<"/", "a", "/">>, Doc(<<"\n", "\n", "\n", "d", " ", "\n", "\n", "\n">>),
                        <<PrintRoute(<<"/", "x">>, NullDoc, <<m>>)>>) :
               name \in {<<"R">>, <<"S", " ">>},
               m \in {n \in PrintMethods : Len(n.body) + Len(n.responses) > 0}}

PrinterInit ==
    /\ IdleRun
    /\ output = Pending
    /\ \/ \E type \in PrintTypes :
             input = [fn |-> "printMarkdownType", type |-> type]
       \/ \E router \in PrintRouters, printTOC \in BOOLEAN :
             input = [fn |-> "printMarkdown", router |-> router, printTOC |-> printTOC]
       \/ \E rs \in SeqsUpTo(DocumentRouters, MaxRouters) :
             input = [fn |-> "printMarkdownFull", routers |-> rs]

ApplyPrintMarkdownType ==
    /\ input.fn = "printMarkdownType"
    /\ output = Pending
    /\ output' = [status |-> "ok",
                  val |-> printMarkdownType(input.type)]
    /\ UNCHANGED <<input, runVars>>

ApplyPrintMarkdown ==
    /\ input.fn = "printMarkdown"
    /\ output = Pending
    /\ output' = [status |-> "ok",
                  val |-> printMarkdownText(input.router, input.printTOC)]
    /\ UNCHANGED <<input, runVars>>

ApplyPrintMarkdownFull ==
    /\ input.fn = "printMarkdownFull"
    /\ output = Pending
    /\ output' = [status |-> "ok",
                  val |-> printMarkdownFullText(input.routers)]
    /\ UNCHANGED <<input, runVars>>

PrinterNext == ApplyPrintMarkdownType \/ ApplyPrintMarkdown \/ ApplyPrintMarkdownFull

SpecPrinter == PrinterInit /\ [][PrinterNext]_vars

-----------------------------------------------------------------------------
(* Properties of the printer (SpecPrinter). *)

Printed(fn) == input.fn = fn /\ output.status = "ok"

\* the text ends in one line feed, and its lines neither end in whitespace nor
\* are two in a row empty, nor the first or the last
CleanText(text) ==
    /\ Len(text) > 1
    /\ text[Len(text)] = "\n"
    /\ text[Len(text) - 1] # "\n"
    /\ text[1] # "\n"
    /\ \A i \in 1..(Len(text) - 1) : text[i + 1] = "\n" => text[i] \notin Whitespace \ {"\n"}
    /\ \A i \in 1..(Len(text) - 2) : ~(text[i] = "\n" /\ text[i + 1] = "\n" /\ text[i + 2] = "\n")

\* C21: the text of every Router, and of every list of Routers rendered as one
\* document, has no line that ends in whitespace and no two blank lines in a
\* row, does not start or end with a blank line, and ends with exactly one line
\* feed.
RenderedTextIsClean ==
    (Printed("printMarkdown") \/ Printed("printMarkdownFull")) => CleanText(output.val)

\* a document of MaxRouters Routers whose names and documentation end in blanks
\* and blank lines
DocumentOfRaggedRouters ==
    /\ Printed("printMarkdownFull")
    /\ Len(input.routers) = MaxRouters
    /\ \A i \in 1..Len(input.routers) :
          /\ input.routers[i].documentation.state = "text"
          /\ Len(input.routers[i].routes) > 0
    /\ CleanText(output.val)

\* a Router with routes whose layout, before the post-processing, has lines
\* that end in blanks
RouterOfPaddedLines ==
    /\ Printed("printMarkdown")
    /\ Len(input.router.routes) = MaxRoutes
    /\ \E i \in 1..Len(input.router.routes) :
          \E j \in 1..Len(input.router.routes[i].methods) :
             Len(input.router.routes[i].methods[j].body) > 0
    /\ ~CleanText(textOf(routerBlock(input.router, input.printTOC)) \o <<"\n">>)
    /\ CleanText(output.val)

\* no call of hcat in the printer throws
PrinterNeverThrows ==
    /\ Printed("printMarkdownType") =>
          \A i \in 1..Len(output.val.lines) : output.val.lines[i] # <<"T", "y", "p", "e", "E", "r", "r", "o", "r">>
    /\ (Printed("printMarkdown") \/ Printed("printMarkdownFull")) =>
          \A lines \in {splitLines(output.val)} :
              \A i \in 1..Len(lines) : trimStart(lines[i]) # <<"T", "y", "p", "e", "E", "r", "r", "o", "r">>

\* printMarkdownType has printed an Object with members
ObjectPrinted ==
    /\ Printed("printMarkdownType")
    /\ input.type.kind = "Object"
    /\ Len(input.type.objectMembers) > 0

StartsWith(line, prefix) ==
    Len(line) >= Len(prefix) /\ SubSeq(line, 1, Len(prefix)) = prefix

\* the lines of the values of the members of an Object, each printed alone
MemberRows(type) ==
    [i \in 1..Len(type.objectMembers) |->
        toIndentStrings(printMarkdownType(type.objectMembers[i].type)) \o <<>>] \o <<>>
\* the lines of the block that come before the i-th member
RECURSIVE RowsBefore(_, _)
RowsBefore(rows, i) ==
    IF i = 1 THEN 1 ELSE RowsBefore(rows, i - 1) + Len(rows[i - 1])
\* the characters before the value of a member: the indentation, the longest
\* name, the colon and the blank after it
ValueColumn(type) == INDENT_SIZE + longestNameOf(type.objectMembers) + 2
\* the start of the first line of the i-th member
MemberStart(type, i) ==
    Spaces(INDENT_SIZE) \o type.objectMembers[i].name \o <<":", " ">>
        \o Spaces(longestNameOf(type.objectMembers) - Len(type.objectMembers[i].name))
\* the line has the line of a value at the column of the values
ValueAt(type, line, row) ==
    StartsWith(SubSeq(line, ValueColumn(type) + 1, Len(line)), row)

\* C23 as stated: an Object with members is printed as an opening brace, one
\* line per member in the order of the members, each made of the name, a colon
\* and blanks up to the column where all values start, and the closing brace.
OneLinePerMember ==
    ObjectPrinted =>
        \A rows \in {MemberRows(input.type)} :
            /\ output.val.lines[1] = <<"{">>
            /\ Len(output.val.lines) >= Len(rows) + 2
            /\ \A i \in 1..Len(rows) :
                  /\ StartsWith(output.val.lines[i + 1], MemberStart(input.type, i))
                  /\ ValueAt(input.type, output.val.lines[i + 1], rows[i][1])
            /\ StartsWith(output.val.lines[Len(rows) + 2], <<"}">>)

\* C23, amended: each member takes as many lines as its value has, in the
\* order of the members; the first starts with the name, a colon, a blank and
\* the blanks that make up for the longest name, the others with blanks, and
\* on every one of them the line of the value starts at the same column.
MemberValuesAligned ==
    ObjectPrinted =>
        \A rows \in {MemberRows(input.type)} :
            /\ output.val.lines[1] = <<"{">>
            /\ Len(output.val.lines) > RowsBefore(rows, Len(rows) + 1)
            /\ \A i \in 1..Len(rows) :
                  \A r \in 1..Len(rows[i]) :
                     /\ StartsWith(output.val.lines[RowsBefore(rows, i) + r],
                                   IF r = 1 THEN MemberStart(input.type, i)
                                   ELSE Spaces(ValueColumn(input.type)))
                     /\ ValueAt(input.type, output.val.lines[RowsBefore(rows, i) + r],
                                rows[i][r])
            /\ StartsWith(output.val.lines[RowsBefore(rows, Len(rows) + 1) + 1], <<"}">>)

\* an Object of two members with names of different lengths, the first with a
\* value of several lines
MembersOfSeveralLinesAligned ==
    /\ ObjectPrinted
    /\ Len(input.type.objectMembers) = 2
    /\ Len(input.type.objectMembers[1].name) < Len(input.type.objectMembers[2].name)
    /\ Len(MemberRows(input.type)[1]) > 1
    /\ Len(output.val.lines) > 4

\* printMarkdownType has printed a Type that carries documentation
DocumentedTypePrinted ==
    /\ Printed("printMarkdownType")
    /\ input.type.documentation.state = "text"
    /\ Len(input.type.documentation.text) > 0

EndsWith(line, suffix) ==
    Len(line) >= Len(suffix)
        /\ SubSeq(line, Len(line) - Len(suffix) + 1, Len(line)) = suffix
Contains(line, part) ==
    \E i \in 1..(Len(line) - Len(part) + 1) : SubSeq(line, i, i + Len(part) - 1) = part

\* the comment of a Type: the opening marker, the lines of the documentation
\* and the closing marker after the last of them
CommentRows(type) ==
    Only({toRectString(BlockOf(staticHcat(<<
              blockOfText(<<" ", "/", "*", " ">>), doc,
              TextBlockOfLines([i \in 1..height(doc) |->
                                   IF i < height(doc) THEN <<>> ELSE <<" ", "*", "/">>], 0)>>))) :
             doc \in {blockOfText(type.documentation.text)}})

\* the block has the documentation as a trailing comment: lines of the block,
\* one after the other, end in the lines of the comment
HasTrailingComment(block, type) ==
    \A rows \in {CommentRows(type)} :
        \E i \in 1..(Len(block.lines) - Len(rows) + 1) :
            \A r \in 1..Len(rows) : EndsWith(block.lines[i + r - 1], rows[r])

\* C29: every Type that carries documentation which is not empty is printed
\* with the documentation as a trailing comment, whatever its variant, Null
\* and Undefined included.
DocumentedTypeHasComment ==
    DocumentedTypePrinted => HasTrailingComment(output.val, input.type)

\* a Null or Undefined with documentation is printed as the bare keyword
DocumentedNullPrintedBare ==
    /\ DocumentedTypePrinted
    /\ input.type.kind \in {"Null", "Undefined"}
    /\ output.val.lines \in {<< <<"n", "u", "l", "l">> >>,
                             << <<"u", "n", "d", "e", "f", "i", "n", "e", "d">> >>}

\* every other variant is printed with its documentation
DocumentedOtherTypeHasComment ==
    (DocumentedTypePrinted /\ input.type.kind \notin {"Null", "Undefined"})
        => HasTrailingComment(output.val, input.type)

\* a Type without documentation is printed without a comment
UndocumentedTypePrinted ==
    /\ Printed("printMarkdownType")
    /\ input.type.documentation.state = "null"
    /\ input.type.kind \in {"Number", "Null"}
    /\ \A i \in 1..Len(output.val.lines) : ~Contains(output.val.lines[i], <<"/", "*">>)

=============================================================================
